---- MODULE Spec2Model ----
(***************************************************************************)
(* A model of the configuration-driven query service: the SQL builder      *)
(* (app/sql_builder.py), the request schema (app/schemas.py), the HTTP     *)
(* execution adapter (app/database_new.py) and the two route handlers      *)
(* (app/routes.py).                                                        *)
(*                                                                         *)
(* Representation.  A column reference 'table.column' is the record        *)
(* [table, col]; a bare reference has table = "".  split('.', 1) is the    *)
(* projection onto the two fields.  SQL text is kept as the record of its  *)
(* clauses in the order _construct_final_query joins them with ' '; a      *)
(* clause that the code leaves out is the empty sequence or string.        *)
(* Filter values are records [ty, n] (ty the Python type of the value).    *)
(***************************************************************************)
EXTENDS Integers, Sequences, FiniteSets, TLC

VARIABLES
    table_configs,   \* SQLBuilder.table_configs: the parsed tables, in dict order
    hash_order,      \* the iteration order of set(...) in this process
    count_strategy,  \* SQLBuilder.count_strategy of the reused builder
    query_parts,     \* SQLBuilder.query_parts of the reused builder
    parameters,      \* SQLBuilder.parameters of the reused builder
    last_params,     \* the argument of the latest build_query call on the reused builder
    last_result,     \* what that call returned or raised
    earlier,         \* history: what the calls before the latest one did
    pc,              \* position of the route handler in its request
    request,         \* the request being served
    built,           \* what build_query returned to the handler
    adapter_calls,   \* the execute_query calls of this request, in order
    count_result,    \* rows returned by the count query
    results,         \* rows returned by the main query
    total_count,     \* the handler's total_count
    response         \* the HTTP response of this request

vars == <<table_configs, hash_order, count_strategy, query_parts, parameters, last_params,
          last_result, earlier, pc, request, built, adapter_calls, count_result, results,
          total_count, response>>

builderVars == <<query_parts, parameters, last_params, last_result, earlier>>
handlerVars == <<pc, request, built, adapter_calls, count_result, results, total_count, response>>

----------------------------------------------------------------------------
(* Bounds of the model *)

MaxPage == 2
MaxPageSize == 2
MaxRows == 2
MaxCount == 2

----------------------------------------------------------------------------
(* Generic helpers *)

\* Python's None for an absent page / page_size
NoneVal == 0 - 1

Truthy(x) == x # NoneVal /\ x # 0

Range(s) == {s[i] : i \in 1..Len(s)}

Contains(s, e) == \E i \in 1..Len(s) : s[i] = e

\* binds v once for the body F, as a local assignment does
With(v, F(_)) == F(v)

RECURSIVE Flatten(_)
Flatten(ss) == IF ss = <<>> THEN <<>> ELSE Head(ss) \o Flatten(Tail(ss))

Digit == <<"1", "2", "3", "4", "5", "6", "7", "8", "9">>

RECURSIVE Str(_)
Str(n) == IF n = 0 THEN "0"
          ELSE IF n < 10 THEN Digit[n]
          ELSE Str(n \div 10) \o (IF n % 10 = 0 THEN "0" ELSE Digit[n % 10])

Lower(s) ==
    CASE s = "INTEGER" -> "integer"
      [] s = "VARCHAR" -> "varchar"
      [] s = "DOUBLE PRECISION" -> "double precision"
      [] s = "BOOLEAN" -> "boolean"
      [] s = "SUM" -> "sum"
      [] s = "COUNT" -> "count"
      [] s = "AVG" -> "avg"
      [] s = "MAX" -> "max"
      [] s = "MIN" -> "min"
      [] s = "NEWWPNL" -> "newwpnl"
      [] OTHER -> s

Upper(s) ==
    CASE s = "sum" -> "SUM"
      [] s = "count" -> "COUNT"
      [] s = "avg" -> "AVG"
      [] s = "max" -> "MAX"
      [] s = "min" -> "MIN"
      [] s = "equal" -> "EQUAL"
      [] s = "in" -> "IN"
      [] s = "inlist" -> "INLIST"
      [] s = "between" -> "BETWEEN"
      [] s = "Between" -> "BETWEEN"
      [] s = "like" -> "LIKE"
      [] s = "invalid_op" -> "INVALID_OP"
      [] OTHER -> s

----------------------------------------------------------------------------
(* Column references and values *)

Ref(t, c) == [table |-> t, col |-> c]
Bare(c) == Ref("", c)

HasDot(column) == column.table # ""

IntVal(n) == [ty |-> "int", n |-> n]
StrVal(n) == [ty |-> "str", n |-> n]
NoValue == [ty |-> "none", n |-> 0]

----------------------------------------------------------------------------
(* Table configuration (class TableConfig) *)

TableConfig(name, priority, columns, relations, mandatory_fields, aggregations, restricted) ==
    [name |-> name, priority |-> priority, columns |-> columns, relations |-> relations,
     mandatory_fields |-> mandatory_fields, aggregations |-> aggregations,
     restricted_attributes |-> restricted]

ColDef(name, aliases, type) == [name |-> name, field_aliases |-> aliases, field_type |-> type]

JoinCol(source, target) == [source |-> source, target |-> target]

DefaultPriority == 999

NoConfig == TableConfig("", DefaultPriority, <<>>, <<>>, <<>>, <<>>, <<>>)

\* the table configuration of tests/conftest.py
SampleConfig ==
    << TableConfig("newwpnl", 1,
          << ColDef("uid", <<"user_id">>, "INTEGER"),
             ColDef("uidtype", <<"user_type">>, "VARCHAR"),
             ColDef("businessdate", <<"bdate", "date">>, "INTEGER"),
             ColDef("newpnl", <<"profit_loss", "pnl">>, "DOUBLE PRECISION") >>,
          << [name |-> "users", type |-> "LEFT", joinColumns |-> <<JoinCol("uid", "id")>>] >>,
          <<"uidtype", "businessdate">>,
          << [field |-> "newpnl", function |-> "SUM", alias |-> "total_newpnl"] >>,
          <<"uid">>),
       TableConfig("users", 2,
          << ColDef("id", <<>>, "INTEGER"),
             ColDef("name", <<"username">>, "VARCHAR") >>,
          << [name |-> "profile", type |-> "LEFT", joinColumns |-> <<JoinCol("id", "id")>>] >>,
          <<"id">>, <<>>, <<>>),
       TableConfig("profile", 3,
          << ColDef("id", <<>>, "INTEGER"),
             ColDef("email", <<>>, "VARCHAR") >>,
          <<>>, <<>>, <<>>, <<>>) >>

\* a missing configuration file leaves the builder with zero tables
EmptyConfig == <<>>

Configs == {SampleConfig, EmptyConfig}

HasTable(tcs, name) == \E i \in 1..Len(tcs) : tcs[i].name = name

TableNamed(tcs, name) == tcs[CHOOSE i \in 1..Len(tcs) : tcs[i].name = name]

ColMatches(col_def, col_name) ==
    col_def.name = col_name \/ Contains(col_def.field_aliases, col_name)

TableHasColumn(table_config, col_name) ==
    \E i \in 1..Len(table_config.columns) : ColMatches(table_config.columns[i], col_name)

----------------------------------------------------------------------------
(* Request schema (app/schemas.py) *)

Measure(field, function) == [field |-> field, function |-> function]

\* a FilterModel; a scalar value v is is_list = FALSE, values = <<v>>
Filter(field, operator, is_list, values) ==
    [field |-> field, operator |-> operator, is_list |-> is_list, values |-> values]

Sort(field, order) == [field |-> field, order |-> order]

GetDataParams(measures, groupBy, filterBy, sortBy, page, page_size) ==
    [measures |-> measures, groupBy |-> groupBy, filterBy |-> filterBy, sortBy |-> sortBy,
     page |-> page, page_size |-> page_size]

is_aggregated(params) == params.measures # <<>>

is_distinct_only(params) ==
    /\ params.groupBy # <<>>
    /\ params.measures = <<>>
    /\ params.filterBy = <<>>
    /\ params.sortBy = <<>>

\* every reference this model ever puts in a request, in one fixed order
RefOrder ==
    << Bare("uidtype"), Bare("uid"), Bare("newpnl"), Bare("businessdate"),
       Bare("user_id"), Bare("nonexistent"), Bare("invalid"),
       Ref("newwpnl", "uid"), Ref("newwpnl", "uidtype"), Ref("users", "name"),
       Ref("profile", "email"), Ref("ghost", "x"),
       Bare("id"), Ref("profile", "id") >>

Reverse(s) == [i \in 1..Len(s) |-> s[Len(s) + 1 - i]]

\* list(set(...)) iterates in an order fixed by the process's string hashing
HashOrders == {RefOrder, Reverse(RefOrder)}

FieldsOf(s) == [i \in 1..Len(s) |-> s[i].field]

get_all_columns(params, order) ==
    LET columns == params.groupBy \o FieldsOf(params.measures)
                   \o FieldsOf(params.filterBy) \o FieldsOf(params.sortBy)
    IN SelectSeq(order, LAMBDA r : r \in Range(columns))

----------------------------------------------------------------------------
(* Validation passes of SQLBuilder *)

Error(field, message, column, index) ==
    [field |-> field, message |-> message, column |-> column, index |-> index]

ColumnError(tcs, column) ==
    IF HasDot(column)
    THEN IF HasTable(tcs, column.table)
         THEN IF ~TableHasColumn(TableNamed(tcs, column.table), column.col)
              THEN <<Error("columns", "Column does not exist in table", column, 0)>>
              ELSE <<>>
         ELSE <<Error("columns", "Table in column not found in configurations", column, 0)>>
    ELSE IF ~\E i \in 1..Len(tcs) : TableHasColumn(tcs[i], column.col)
         THEN <<Error("columns", "Column not found in any table", column, 0)>>
         ELSE <<>>

_validate_columns(tcs, columns) ==
    Flatten([i \in 1..Len(columns) |-> ColumnError(tcs, columns[i])])

EmptyMap == [k \in {} |-> NoConfig]

MapPut(m, k, v) == (k :> v) @@ m

\* dict assignment: an existing key keeps its position
DictPut(d, k, v) ==
    IF \E i \in 1..Len(d) : d[i].key = k
    THEN [i \in 1..Len(d) |-> IF d[i].key = k THEN [key |-> k, config |-> v] ELSE d[i]]
    ELSE Append(d, [key |-> k, config |-> v])

FieldTypeIn(table_config, col_name) ==
    LET idx == {i \in 1..Len(table_config.columns) :
                    ColMatches(table_config.columns[i], col_name)}
    IN IF idx = {} THEN ""
       ELSE table_config.columns[CHOOSE i \in idx : \A j \in idx : i <= j].field_type

_get_column_data_type(tcs, column, column_to_table_map) ==
    LET table_name == IF HasDot(column) THEN column.table
                      ELSE IF column.col \in DOMAIN column_to_table_map
                           THEN column_to_table_map[column.col].name
                           ELSE ""
    IN IF table_name # "" /\ HasTable(tcs, table_name)
       THEN FieldTypeIn(TableNamed(tcs, table_name), column.col)
       ELSE ""

\* type_mapping and isinstance(val, expected_python_types)
KnownType(expected_type) ==
    Lower(expected_type) \in {"varchar", "integer", "double precision", "boolean"}

IsInstance(val, expected_type) ==
    CASE Lower(expected_type) = "varchar" -> val.ty = "str"
      [] Lower(expected_type) = "integer" -> val.ty \in {"int", "bool"}
      [] Lower(expected_type) = "double precision" -> val.ty \in {"float", "int", "bool"}
      [] Lower(expected_type) = "boolean" -> val.ty = "bool"
      [] OTHER -> FALSE

ValueErrors(filter_obj, expected_type, message, i) ==
    Flatten([k \in 1..Len(filter_obj.values) |->
        IF filter_obj.values[k].ty = "none" THEN <<>>
        ELSE IF ~IsInstance(filter_obj.values[k], expected_type)
             THEN <<Error("filters", message, filter_obj.field, i)>>
             ELSE <<>>])

FilterErrors(tcs, filter_obj, column_to_table_map, i) ==
    LET operator == Upper(filter_obj.operator)
        expected_type == _get_column_data_type(tcs, filter_obj.field, column_to_table_map)
    IN IF expected_type = "" \/ ~KnownType(expected_type) THEN <<>>
       ELSE IF operator = "BETWEEN"
       THEN IF ~filter_obj.is_list \/ Len(filter_obj.values) # 2
            THEN <<Error("filters", "Invalid BETWEEN range", filter_obj.field, i)>>
            ELSE ValueErrors(filter_obj, expected_type,
                             "Invalid data type for column in BETWEEN range", i)
       ELSE IF operator \in {"IN", "INLIST"}
       THEN IF ~filter_obj.is_list \/ filter_obj.values = <<>>
            THEN <<Error("filters", "Invalid IN/INLIST values", filter_obj.field, i)>>
            ELSE ValueErrors(filter_obj, expected_type,
                             "Invalid data type for column in IN/INLIST", i)
       ELSE IF operator = "EQUAL"
       THEN IF ~filter_obj.is_list /\ filter_obj.values[1].ty = "none" THEN <<>>
            ELSE IF filter_obj.is_list
                 THEN <<Error("filters", "Invalid value for column with EQUAL operator",
                              filter_obj.field, i)>>
                 ELSE <<>>
       ELSE <<Error("filters", "Unsupported operator", filter_obj.field, i)>>

_validate_filter_data_types(tcs, filters, column_to_table_map) ==
    Flatten([i \in 1..Len(filters) |-> FilterErrors(tcs, filters[i], column_to_table_map, i - 1)])

valid_functions == {"SUM", "COUNT", "AVG", "MAX", "MIN"}

MeasureErrors(tcs, measure, i) ==
    LET column_errors == _validate_columns(tcs, <<measure.field>>)
    IN [k \in 1..Len(column_errors) |-> [column_errors[k] EXCEPT !.field = "measures"]]
       \o (IF Upper(measure.function) \notin valid_functions
           THEN <<Error("measures", "Invalid aggregation function", measure.field, i)>>
           ELSE <<>>)

_validate_measures(tcs, measures) ==
    Flatten([i \in 1..Len(measures) |-> MeasureErrors(tcs, measures[i], i - 1)])

----------------------------------------------------------------------------
(* Table resolution (SQLBuilder._get_explicitly_requested_tables) *)

BestTable(tcs, column_name) ==
    LET idx == {i \in 1..Len(tcs) : TableHasColumn(tcs[i], column_name)}
    IN IF idx = {} THEN NoConfig
       ELSE tcs[CHOOSE i \in idx : \A j \in idx :
                    \/ tcs[i].priority < tcs[j].priority
                    \/ (tcs[i].priority = tcs[j].priority /\ i <= j)]

FoundConfig(tcs, table_name) ==
    LET idx == {i \in 1..Len(tcs) : Lower(tcs[i].name) = Lower(table_name)}
    IN IF idx = {} THEN NoConfig ELSE tcs[CHOOSE i \in idx : \A j \in idx : i <= j]

ResolveColumn(tcs, acc, column) ==
    IF HasDot(column)
    THEN LET config == IF HasTable(tcs, column.table) THEN TableNamed(tcs, column.table)
                       ELSE IF FoundConfig(tcs, column.table) # NoConfig
                            THEN FoundConfig(tcs, column.table)
                            ELSE TableConfig(column.table, DefaultPriority,
                                             <<>>, <<>>, <<>>, <<>>, <<>>)
         IN [set_a |-> DictPut(acc.set_a, column.table, config),
             map |-> MapPut(acc.map, column.col, config)]
    ELSE LET best_table == BestTable(tcs, column.col)
         IN IF best_table # NoConfig
            THEN [set_a |-> DictPut(acc.set_a, best_table.name, best_table),
                  map |-> MapPut(acc.map, column.col, best_table)]
            ELSE acc

RECURSIVE ResolveColumns(_, _, _)
ResolveColumns(tcs, acc, columns) ==
    IF columns = <<>> THEN acc
    ELSE ResolveColumns(tcs, ResolveColumn(tcs, acc, Head(columns)), Tail(columns))

_get_explicitly_requested_tables(tcs, params, order) ==
    ResolveColumns(tcs, [set_a |-> <<>>, map |-> EmptyMap], get_all_columns(params, order))

----------------------------------------------------------------------------
(* Join discovery and main table *)

DictHas(d, k) == \E i \in 1..Len(d) : d[i].key = k

Configs_of(d) == [i \in 1..Len(d) |-> d[i].config]

RECURSIVE AddForward(_, _, _)
AddForward(tcs, join_tables, relations) ==
    IF relations = <<>> THEN join_tables
    ELSE LET target_name == Head(relations).name
             next == IF HasTable(tcs, target_name) /\ ~DictHas(join_tables, target_name)
                     THEN Append(join_tables, [key |-> target_name,
                                               config |-> TableNamed(tcs, target_name)])
                     ELSE join_tables
         IN AddForward(tcs, next, Tail(relations))

RECURSIVE AddReverse(_, _, _)
AddReverse(rest, set_a_tables, join_tables) ==
    IF rest = <<>> THEN join_tables
    ELSE LET table_config == Head(rest)
             has_relation_to_set_a ==
                 \E r \in 1..Len(table_config.relations) : \E a \in 1..Len(set_a_tables) :
                     table_config.relations[r].name = set_a_tables[a].config.name
             next == IF ~DictHas(join_tables, table_config.name) /\ has_relation_to_set_a
                     THEN Append(join_tables, [key |-> table_config.name,
                                               config |-> table_config])
                     ELSE join_tables
         IN AddReverse(Tail(rest), set_a_tables, next)

_find_tables_to_join(tcs, set_a_tables) ==
    LET forward == AddForward(tcs, set_a_tables,
                       Flatten([i \in 1..Len(set_a_tables) |-> set_a_tables[i].config.relations]))
    IN AddReverse(tcs, set_a_tables, forward)

\* min(values, key=priority): the first of the lowest priority
MinPriority(d) ==
    d[CHOOSE i \in 1..Len(d) : \A j \in 1..Len(d) :
          \/ d[i].config.priority < d[j].config.priority
          \/ (d[i].config.priority = d[j].config.priority /\ i <= j)].config

\* a main table that is the first requested one, whatever its priority
_determine_main_table_first(set_a_tables) ==
    IF set_a_tables = <<>> THEN NoConfig ELSE set_a_tables[1].config

_determine_main_table(set_a_tables) ==
    IF set_a_tables = <<>> THEN NoConfig ELSE MinPriority(set_a_tables)

NoTablesError == <<Error("columns", "No tables found for requested columns", Bare(""), 0)>>

----------------------------------------------------------------------------
(* JOIN clauses *)

_convert_join_type(relation_type) ==
    CASE Upper(relation_type) \in {"ONE_TO_ONE", "ONE_TO_MANY", "MANY_TO_ONE",
                                   "MANY_TO_MANY", "LEFT"} -> "LEFT"
      [] Upper(relation_type) = "RIGHT" -> "RIGHT"
      [] Upper(relation_type) = "INNER" -> "INNER"
      [] Upper(relation_type) = "OUTER" -> "FULL OUTER"
      [] OTHER -> "LEFT"

JoinClause(join_type, target, conditions) ==
    [join_type |-> join_type, target |-> target, conditions |-> conditions]

\* the None that the join builders return
NoJoin == JoinClause("", "", <<>>)

Equality(lt, lc, rt, rc) == [lt |-> lt, lc |-> lc, rt |-> rt, rc |-> rc]

_build_join_clause(source_config, target_config, relation) ==
    LET join_conditions ==
            [k \in 1..Len(relation.joinColumns) |->
                Equality(source_config.name, relation.joinColumns[k].source,
                         target_config.name, relation.joinColumns[k].target)]
    IN IF join_conditions # <<>>
       THEN JoinClause(_convert_join_type(relation.type), target_config.name, join_conditions)
       ELSE NoJoin

_build_join_clause_from_reverse(target_config, source_config, original_relation) ==
    LET join_conditions ==
            [k \in 1..Len(original_relation.joinColumns) |->
                Equality(source_config.name, original_relation.joinColumns[k].target,
                         target_config.name, original_relation.joinColumns[k].source)]
    IN IF join_conditions # <<>>
       THEN JoinClause(_convert_join_type(original_relation.type), target_config.name,
                       join_conditions)
       ELSE NoJoin

FirstRelationTo(config, target_name) ==
    LET idx == {r \in 1..Len(config.relations) : config.relations[r].name = target_name}
    IN config.relations[CHOOSE r \in idx : \A q \in idx : r <= q]

HasRelationTo(config, target_name) ==
    \E r \in 1..Len(config.relations) : config.relations[r].name = target_name

\* relations of the other configured tables that point at the target
_get_reverse_relations_for_table(tcs, table_config) ==
    Flatten([i \in 1..Len(tcs) |->
        IF tcs[i].name = table_config.name THEN <<>>
        ELSE Flatten([r \in 1..Len(tcs[i].relations) |->
                IF tcs[i].relations[r].name = table_config.name
                THEN <<[source_table |-> tcs[i].name,
                        original_relation |-> tcs[i].relations[r]]>>
                ELSE <<>>])])

RECURSIVE _find_join_path(_, _, _)
_find_join_path(tcs, target_table, joined_tables) ==
    IF joined_tables = <<>> THEN NoJoin
    ELSE LET joined_name == Head(joined_tables).key
             joined_config == Head(joined_tables).config
             reverse_relations == _get_reverse_relations_for_table(tcs, target_table)
             ridx == {r \in 1..Len(reverse_relations) :
                          reverse_relations[r].source_table = joined_name}
         IN IF HasRelationTo(joined_config, target_table.name)
            THEN _build_join_clause(joined_config, target_table,
                                    FirstRelationTo(joined_config, target_table.name))
            ELSE IF ridx # {}
            THEN _build_join_clause_from_reverse(target_table, joined_config,
                     reverse_relations[CHOOSE r \in ridx : \A q \in ridx : r <= q]
                         .original_relation)
            ELSE _find_join_path(tcs, target_table, Tail(joined_tables))

\* sorted(values, key=priority) is stable
RECURSIVE InsertByPriority(_, _)
InsertByPriority(sorted, config) ==
    IF sorted = <<>> THEN <<config>>
    ELSE IF config.priority < Head(sorted).priority THEN <<config>> \o sorted
    ELSE <<Head(sorted)>> \o InsertByPriority(Tail(sorted), config)

RECURSIVE SortByPriority(_)
SortByPriority(configs) ==
    IF configs = <<>> THEN <<>>
    ELSE InsertByPriority(SortByPriority(SubSeq(configs, 1, Len(configs) - 1)),
                          configs[Len(configs)])

RECURSIVE JoinEach(_, _, _, _)
JoinEach(tcs, targets, joined_tables, joins) ==
    IF targets = <<>> THEN joins
    ELSE LET target_table == Head(targets)
             join_clause == _find_join_path(tcs, target_table, joined_tables)
         IN IF DictHas(joined_tables, target_table.name)
            THEN JoinEach(tcs, Tail(targets), joined_tables, joins)
            ELSE IF join_clause # NoJoin
            THEN JoinEach(tcs, Tail(targets),
                          Append(joined_tables, [key |-> target_table.name,
                                                 config |-> target_table]),
                          Append(joins, join_clause))
            ELSE JoinEach(tcs, Tail(targets), joined_tables, joins)

\* joins taken in the order the join set was discovered
_build_join_clauses_unsorted(tcs, joins, main_table, join_tables) ==
    IF join_tables = <<>> THEN joins
    ELSE JoinEach(tcs, Configs_of(join_tables),
                  <<[key |-> main_table.name, config |-> main_table]>>, joins)

\* appends to self.query_parts['joins']
_build_join_clauses(tcs, joins, main_table, join_tables) ==
    IF join_tables = <<>> THEN joins
    ELSE JoinEach(tcs, SortByPriority(Configs_of(join_tables)),
                  <<[key |-> main_table.name, config |-> main_table]>>, joins)

----------------------------------------------------------------------------
(* Clause builders; each returns the new value of the part it assigns *)

\* one entry of the SELECT list: a plain column has fn = "", an aggregate
\* FN(col) AS alias has its function in fn, 'DISTINCT a, b' is one entry
Item(fn, cols, alias) == [fn |-> fn, cols |-> cols, alias |-> alias]

Column(c) == Item("", <<c>>, "")

ColNames(columns) == [i \in 1..Len(columns) |-> columns[i].col]

MandatoryOfOthers(join_tables, main_table) ==
    Flatten([i \in 1..Len(join_tables) |->
        IF join_tables[i].key # main_table.name
        THEN join_tables[i].config.mandatory_fields ELSE <<>>])

MeasureItem(measure) ==
    Item(Upper(measure.function), <<measure.field.col>>,
         Lower(measure.function) \o "_" \o measure.field.col)

AggregationItems(table_config) ==
    Flatten([k \in 1..Len(table_config.aggregations) |->
        LET agg == table_config.aggregations[k]
        IN IF \E c \in 1..Len(table_config.columns) : table_config.columns[c].name = agg.field
           THEN <<Item(Upper(agg.function), <<agg.field>>, agg.alias)>>
           ELSE <<>>])

Columns(names) == [i \in 1..Len(names) |-> Column(names[i])]

SelectItems(params, join_tables, aggregated, main_table) ==
    IF is_distinct_only(params) THEN Columns(ColNames(params.groupBy))
    ELSE IF aggregated
    THEN Columns(main_table.mandatory_fields)
         \o Columns(MandatoryOfOthers(join_tables, main_table))
         \o Columns(ColNames(params.groupBy))
         \o [i \in 1..Len(params.measures) |-> MeasureItem(params.measures[i])]
         \o Flatten([i \in 1..Len(join_tables) |-> AggregationItems(join_tables[i].config)])
    ELSE Columns(ColNames(params.groupBy))

_build_select_clause(params, join_tables, aggregated) ==
    With(SelectItems(params, join_tables, aggregated, _determine_main_table(join_tables)),
         LAMBDA select_items :
            With(IF select_items = <<>> THEN <<Column("*")>> ELSE select_items, LAMBDA items :
                IF is_distinct_only(params)
                THEN <<Item("DISTINCT", Flatten([i \in 1..Len(items) |-> items[i].cols]), "")>>
                ELSE items))

Condition(column, op, placeholders) ==
    [column |-> column, op |-> op, placeholders |-> placeholders]

\* the (None, []) of _build_filter_condition
NoCondition == [condition |-> Condition("", "", 0), values |-> <<>>]

\* a condition builder that gives no condition for an open-ended BETWEEN
_build_filter_condition_closed_between(filter_obj) ==
    LET column == filter_obj.field.col
        operator == Upper(filter_obj.operator)
    IN IF operator = "BETWEEN" /\ filter_obj.is_list /\ Len(filter_obj.values) = 2
          /\ \A i \in 1..2 : filter_obj.values[i] # NoValue
       THEN [condition |-> Condition(column, "BETWEEN", 2), values |-> filter_obj.values]
       ELSE IF operator \in {"IN", "INLIST"} /\ filter_obj.is_list /\ filter_obj.values # <<>>
       THEN [condition |-> Condition(column, "IN", Len(filter_obj.values)),
             values |-> filter_obj.values]
       ELSE IF operator = "EQUAL" /\ ~filter_obj.is_list /\ filter_obj.values[1].ty # "none"
       THEN [condition |-> Condition(column, "=", 1), values |-> filter_obj.values]
       ELSE NoCondition

_build_filter_condition(filter_obj) ==
    LET column == filter_obj.field.col
        operator == Upper(filter_obj.operator)
    IN IF operator = "BETWEEN" /\ filter_obj.is_list /\ Len(filter_obj.values) = 2
       THEN [condition |-> Condition(column, "BETWEEN", 2), values |-> filter_obj.values]
       ELSE IF operator \in {"IN", "INLIST"} /\ filter_obj.is_list /\ filter_obj.values # <<>>
       THEN [condition |-> Condition(column, "IN", Len(filter_obj.values)),
             values |-> filter_obj.values]
       ELSE IF operator = "EQUAL" /\ ~(~filter_obj.is_list /\ filter_obj.values[1].ty = "none")
       THEN [condition |-> Condition(column, "=", 1),
             values |-> IF filter_obj.is_list
                        THEN <<[ty |-> "list", n |-> Len(filter_obj.values)]>>
                        ELSE filter_obj.values]
       ELSE NoCondition

BuiltConditions(params) ==
    LET built_each == [i \in 1..Len(params.filterBy) |-> _build_filter_condition(params.filterBy[i])]
    IN SelectSeq(built_each, LAMBDA b : b # NoCondition)

\* returns the new 'where' part and the new self.parameters
_build_where_clause(where, params_acc, params) ==
    LET built_each == BuiltConditions(params)
        conditions == [i \in 1..Len(built_each) |-> built_each[i].condition]
    IN [where |-> IF params.filterBy # <<>> /\ conditions # <<>> THEN <<conditions>> ELSE where,
        parameters |-> IF params.filterBy = <<>> THEN params_acc
                       ELSE params_acc
                            \o Flatten([i \in 1..Len(built_each) |-> built_each[i].values])]

RECURSIVE AppendNew(_, _)
AppendNew(items, more) ==
    IF more = <<>> THEN items
    ELSE AppendNew(IF Contains(items, Head(more)) THEN items ELSE Append(items, Head(more)),
                   Tail(more))

aggregate_names == {"COUNT", "SUM", "AVG", "MAX", "MIN"}

\* a GROUP BY of the requested groupBy columns alone
_build_group_by_clause_requested_only(group_by, select, params, join_tables, aggregated) ==
    LET has_aggregates == \E i \in 1..Len(select) : Upper(select[i].fn) \in aggregate_names
        group_by_items == AppendNew(<<>>, ColNames(params.groupBy))
    IN IF ~aggregated \/ ~has_aggregates THEN group_by
       ELSE IF group_by_items # <<>> THEN group_by_items ELSE group_by

_build_group_by_clause(group_by, select, params, join_tables, aggregated) ==
    LET has_aggregates == \E i \in 1..Len(select) : Upper(select[i].fn) \in aggregate_names
        main_table == _determine_main_table(join_tables)
        group_by_items == AppendNew(main_table.mandatory_fields
                                    \o MandatoryOfOthers(join_tables, main_table),
                                    ColNames(params.groupBy))
    IN IF ~aggregated \/ ~has_aggregates THEN group_by
       ELSE IF group_by_items # <<>> THEN group_by_items ELSE group_by

_build_order_by_clause(order_by, params) ==
    IF params.sortBy = <<>> THEN order_by
    ELSE [i \in 1..Len(params.sortBy) |->
             [column |-> params.sortBy[i].field.col, order |-> params.sortBy[i].order]]

\* sets the 'limit' and 'offset' keys of query_parts, which _reset does not create
\* pagination that emits OFFSET on every page
_build_pagination_offset_always(qp, params) ==
    IF Truthy(params.page) /\ Truthy(params.page_size)
    THEN ("offset" :> Str((params.page - 1) * params.page_size))
         @@ ("limit" :> Str(params.page_size)) @@ qp
    ELSE qp

_build_pagination(qp, params) ==
    IF Truthy(params.page) /\ Truthy(params.page_size)
    THEN LET limit == params.page_size
             offset == (params.page - 1) * params.page_size
             with_limit == ("limit" :> Str(limit)) @@ qp
         IN IF offset > 0 THEN ("offset" :> Str(offset)) @@ with_limit ELSE with_limit
    ELSE qp

\* SQL text: the clauses in the order they are joined with ' '
Sql(select, from, joins, where, group_by, order_by, limit, offset) ==
    [select |-> select, from |-> from, joins |-> joins, where |-> where,
     group_by |-> group_by, order_by |-> order_by, limit |-> limit, offset |-> offset]

NoSql == Sql(<<>>, "", <<>>, <<>>, <<>>, <<>>, "", "")

_construct_final_query(qp) ==
    Sql(qp["select"], qp["from"], qp["joins"], qp["where"], qp["group_by"], qp["order_by"],
        IF "limit" \in DOMAIN qp THEN qp["limit"] ELSE "",
        IF "offset" \in DOMAIN qp THEN qp["offset"] ELSE "")

----------------------------------------------------------------------------
(* Count query *)

CountOver(count_select, main_table, qp) ==
    Sql(<<count_select>>, main_table.name, qp["joins"], qp["where"], <<>>, <<>>, "", "")

\* a simple count that drops the joins of the main query
_build_simple_count_query_without_joins(main_table, qp, count_parameters) ==
    [query |-> Sql(<<Item("COUNT", <<"*">>, "")>>, main_table.name, <<>>, qp["where"],
                   <<>>, <<>>, "", ""),
     parameters |-> count_parameters]

_build_simple_count_query(main_table, qp, count_parameters) ==
    [query |-> CountOver(Item("COUNT", <<"*">>, ""), main_table, qp),
     parameters |-> count_parameters]

_build_distinct_count_query(main_table, qp, params, count_parameters) ==
    LET group_cols == ColNames(params.groupBy)
        count_select ==
            IF is_distinct_only(params) /\ params.groupBy # <<>>
            THEN IF Len(group_cols) = 1
                 THEN Item("COUNT DISTINCT", group_cols, "")
                 ELSE Item("COUNT DISTINCT ||", group_cols, "")
            ELSE Item("COUNT", <<"*">>, "")
    IN [query |-> CountOver(count_select, main_table, qp), parameters |-> count_parameters]

_build_separate_count_query(main_table, qp, params, count_parameters) ==
    IF params.groupBy # <<>>
    THEN [query |-> CountOver(Item("DISTINCT", ColNames(params.groupBy), ""), main_table, qp),
          parameters |-> count_parameters]
    ELSE _build_simple_count_query(main_table, qp, count_parameters)

_build_estimate_count_query ==
    [query |-> Sql(<<Item("", <<"-1">>, "estimated_count")>>, "", <<>>, <<>>, <<>>, <<>>, "", ""),
     parameters |-> <<>>]

Strategies == {"simple", "distinct", "separate", "estimate", "other"}

\* a dispatch whose fallback is the estimate marker
_build_count_query_fallback_estimate(strategy, main_table, qp, params) ==
    LET built_each == BuiltConditions(params)
        count_parameters == Flatten([i \in 1..Len(built_each) |-> built_each[i].values])
    IN CASE strategy = "simple" -> _build_simple_count_query(main_table, qp, count_parameters)
         [] strategy = "distinct" ->
                _build_distinct_count_query(main_table, qp, params, count_parameters)
         [] strategy = "separate" ->
                _build_separate_count_query(main_table, qp, params, count_parameters)
         [] OTHER -> _build_estimate_count_query

_build_count_query(strategy, main_table, qp, params) ==
    LET built_each == BuiltConditions(params)
        count_parameters == Flatten([i \in 1..Len(built_each) |-> built_each[i].values])
    IN CASE strategy = "simple" -> _build_simple_count_query(main_table, qp, count_parameters)
         [] strategy = "distinct" ->
                _build_distinct_count_query(main_table, qp, params, count_parameters)
         [] strategy = "separate" ->
                _build_separate_count_query(main_table, qp, params, count_parameters)
         [] strategy = "estimate" -> _build_estimate_count_query
         [] OTHER -> _build_simple_count_query(main_table, qp, count_parameters)

----------------------------------------------------------------------------
(* build_query *)

\* the query_parts dict that __init__ and _reset create: no 'limit', no 'offset'
FreshQueryParts ==
    [select |-> <<>>, from |-> "", joins |-> <<>>, where |-> <<>>,
     group_by |-> <<>>, order_by |-> <<>>]

Builder(qp, params_acc) == [query_parts |-> qp, parameters |-> params_acc]

\* a reset that empties the six known clauses in place
_reset_in_place(builder) ==
    Builder([k \in DOMAIN builder.query_parts |->
                IF k \in DOMAIN FreshQueryParts THEN FreshQueryParts[k]
                ELSE builder.query_parts[k]], <<>>)

_reset(builder) == Builder(FreshQueryParts, <<>>)

\* the state of a builder right after __init__
NewBuilder == Builder(FreshQueryParts, <<>>)

Returned(main_query, main_parameters, count_query, count_parameters) ==
    [kind |-> "ok", main_query |-> main_query, main_parameters |-> main_parameters,
     count_query |-> count_query, count_parameters |-> count_parameters, errors |-> <<>>]

\* raise ValidationError(errors)
Raised(errors) ==
    [kind |-> "ValidationError", main_query |-> NoSql, main_parameters |-> <<>>,
     count_query |-> NoSql, count_parameters |-> <<>>, errors |-> errors]

NoResult ==
    [kind |-> "none", main_query |-> NoSql, main_parameters |-> <<>>,
     count_query |-> NoSql, count_parameters |-> <<>>, errors |-> <<>>]

ValidationErrors(tcs, order, params) ==
    LET column_errors == _validate_columns(tcs, get_all_columns(params, order))
        filter_errors ==
            IF params.filterBy # <<>>
            THEN _validate_filter_data_types(tcs, params.filterBy,
                     _get_explicitly_requested_tables(tcs, params, order).map)
            ELSE <<>>
        measure_errors ==
            IF params.measures # <<>> THEN _validate_measures(tcs, params.measures) ELSE <<>>
    IN column_errors \o filter_errors \o measure_errors

\* the clause builders of build_query, run in order on the builder's own state
BuildClauses(tcs, builder, params, set_a_tables, join_tables, main_table) ==
    LET qp0 == builder.query_parts
        aggregated == is_aggregated(params)
    IN With(_build_select_clause(params, join_tables, aggregated), LAMBDA select :
       With(_build_where_clause(qp0["where"], builder.parameters, params), LAMBDA w :
           Builder(_build_pagination(
                       [qp0 EXCEPT
                           !["select"] = select,
                           !["from"] = main_table.name,
                           !["joins"] = _build_join_clauses(tcs, qp0["joins"], main_table,
                                                            join_tables),
                           !["where"] = w.where,
                           !["group_by"] = _build_group_by_clause(qp0["group_by"], select,
                                               params, join_tables, aggregated),
                           !["order_by"] = _build_order_by_clause(qp0["order_by"], params)],
                       params),
                   w.parameters)))

\* returns the builder's new state and what the call returned or raised
BuildValid(tcs, strategy, reset, params, set_a_tables) ==
    With(_find_tables_to_join(tcs, set_a_tables), LAMBDA join_tables :
    With(_determine_main_table(set_a_tables), LAMBDA main_table :
    With(BuildClauses(tcs, reset, params, set_a_tables, join_tables, main_table), LAMBDA after :
    With(_build_count_query(strategy, main_table, after.query_parts, params), LAMBDA count :
        [builder |-> after,
         outcome |-> Returned(_construct_final_query(after.query_parts),
                              after.parameters, count.query, count.parameters)]))))

build_query(tcs, strategy, order, builder, params) ==
    With(ValidationErrors(tcs, order, params), LAMBDA all_errors :
        IF all_errors # <<>> THEN [builder |-> builder, outcome |-> Raised(all_errors)]
        ELSE With(_get_explicitly_requested_tables(tcs, params, order), LAMBDA resolved :
                IF resolved.set_a = <<>>
                THEN [builder |-> _reset(builder), outcome |-> Raised(NoTablesError)]
                ELSE BuildValid(tcs, strategy, _reset(builder), params, resolved.set_a)))

----------------------------------------------------------------------------
(* The requests the model draws its inputs from *)

SumOf(c) == <<Measure(Bare(c), "SUM")>>

Equal(c, v) == Filter(Bare(c), "EQUAL", FALSE, <<v>>)

\* request shapes: measures, groupBy, filterBy, sortBy
Shapes ==
    { \* distinct-only, one table / two tables / the three-table chain
      <<<<>>, <<Bare("uidtype")>>, <<>>, <<>>>>,
      <<<<>>, <<Bare("uidtype"), Ref("users", "name")>>, <<>>, <<>>>>,
      <<<<>>, <<Ref("newwpnl", "uidtype"), Ref("users", "name"), Ref("profile", "email")>>,
        <<>>, <<>>>>,
      \* nothing requested at all; an unknown column
      <<<<>>, <<>>, <<>>, <<>>>>,
      <<<<>>, <<Bare("nonexistent")>>, <<>>, <<>>>>,
      \* aggregated
      <<SumOf("newpnl"), <<Bare("uidtype")>>, <<Equal("businessdate", IntVal(1))>>,
        <<Sort(Bare("newpnl"), "DESC")>>>>,
      <<SumOf("newpnl"), <<>>, <<>>, <<>>>>,
      <<SumOf("newpnl"), <<Bare("uidtype"), Ref("users", "name")>>, <<>>, <<>>>>,
      \* plain: groupBy with a filter or a sort
      <<<<>>, <<Bare("uidtype")>>, <<>>, <<Sort(Bare("newpnl"), "DESC")>>>>,
      <<<<>>, <<Bare("uidtype")>>,
        <<Filter(Bare("businessdate"), "BETWEEN", TRUE, <<IntVal(1), NoValue>>),
          Equal("uidtype", StrVal(1))>>, <<>>>>,
      <<<<>>, <<Bare("uidtype")>>,
        <<Filter(Bare("uid"), "IN", TRUE, <<IntVal(1), IntVal(2)>>)>>, <<>>>>,
      \* a string for the integer column uid
      <<<<>>, <<Bare("uidtype")>>, <<Equal("uid", StrVal(1))>>, <<>>>>,
      <<<<>>, <<Bare("uidtype")>>,
        <<Filter(Bare("uid"), "IN", TRUE, <<IntVal(1), StrVal(2)>>)>>, <<>>>>,
      \* several violations in one request
      <<SumOf("nonexistent"), <<>>, <<Equal("invalid", StrVal(1))>>, <<>>>>,
      <<SumOf("nonexistent"), <<>>, <<Equal("uid", StrVal(1))>>, <<>>>>,
      <<SumOf("nonexistent"), <<>>,
        <<Filter(Bare("uid"), "IN", TRUE, <<IntVal(1), StrVal(2)>>)>>, <<>>>> }

\* the shapes that are also tried with every page and page_size
PagedShapes ==
    { <<<<>>, <<Bare("uidtype")>>, <<>>, <<>>>>,
      <<SumOf("newpnl"), <<Bare("uidtype")>>, <<Equal("businessdate", IntVal(1))>>,
        <<Sort(Bare("newpnl"), "DESC")>>>> }

\* page and page_size as the schema admits them: None or an integer >= 1
Pages == {NoneVal} \cup (1..MaxPage)
PageSizes == {NoneVal} \cup (1..MaxPageSize)

Requests ==
    { GetDataParams(sh[1], sh[2], sh[3], sh[4], 1, MaxPageSize) : sh \in Shapes }
    \cup { GetDataParams(sh[1], sh[2], sh[3], sh[4], pg, ps) :
             sh \in PagedShapes, pg \in Pages, ps \in PageSizes }

NoParams == GetDataParams(<<>>, <<>>, <<>>, <<>>, NoneVal, NoneVal)

----------------------------------------------------------------------------
(* Execution adapter (execute_query of the HTTP broker adapter) *)

\* dict(zip(column_names, row)): one result row
Row(names, values) == [names |-> names, values |-> values]

\* what the broker answers: a transport failure, or JSON with or without
\* 'resultTable' and with or without a top-level 'rows'
ResultData(status, has_result_table, column_names, rows, top_rows) ==
    [status |-> status, has_result_table |-> has_result_table,
     column_names |-> column_names, rows |-> rows, top_rows |-> top_rows]

Exception(kind, errors, text) == [kind |-> kind, errors |-> errors, text |-> text]

NoException == Exception("", <<>>, "")

ExecuteResult(exc, rows) == [exc |-> exc, rows |-> rows]

execute_query(result_data, is_count_query) ==
    IF result_data.status # "ok"
    THEN ExecuteResult(Exception("RequestException", <<>>, "API error"), <<>>)
    ELSE IF is_count_query
    THEN IF result_data.top_rows = <<>>
         THEN ExecuteResult(NoException, <<Row(<<"count">>, <<0>>)>>)
         ELSE ExecuteResult(NoException, <<Row(<<"count">>, <<result_data.top_rows[1][1]>>)>>)
    ELSE IF ~result_data.has_result_table
    THEN ExecuteResult(Exception("ValueError", <<>>, "Invalid response format from API"), <<>>)
    ELSE IF result_data.column_names = <<>> THEN ExecuteResult(NoException, <<>>)
    ELSE ExecuteResult(NoException,
             [i \in 1..Len(result_data.rows) |->
                 Row(result_data.column_names, result_data.rows[i])])

\* the label the engine gives to an unaliased COUNT(*) column
CountLabels == {"count", "count(*)", "_col0"}

AllColumnNames(tcs, names) ==
    Flatten([i \in 1..Len(tcs) |->
        IF tcs[i].name \in names
        THEN [c \in 1..Len(tcs[i].columns) |-> tcs[i].columns[c].name] ELSE <<>>])

\* the column names of the result of a main query: a plain column is named
\* after itself, an aggregate after its alias, * is every column of the tables
OutputNames(tcs, sql) ==
    Flatten([i \in 1..Len(sql.select) |->
        IF sql.select[i].alias # "" THEN <<sql.select[i].alias>>
        ELSE IF sql.select[i].cols = <<"*">>
        THEN AllColumnNames(tcs, {sql.from} \cup {sql.joins[j].target : j \in 1..Len(sql.joins)})
        ELSE sql.select[i].cols])

TransportFailure == ResultData("error", FALSE, <<>>, <<>>, <<>>)

\* the answers of the engine to a count query
CountReplies ==
    {TransportFailure, ResultData("ok", FALSE, <<>>, <<>>, <<>>)}
    \cup {ResultData("ok", TRUE, <<label>>, <<>>, <<>>) : label \in CountLabels}
    \cup {ResultData("ok", TRUE, <<label>>, <<<<n>>>>, <<>>) :
            label \in CountLabels, n \in 0..MaxCount}

\* the answers of the engine to a main query: up to MaxRows rows
MainReplies(tcs, sql) ==
    {TransportFailure, ResultData("ok", FALSE, <<>>, <<>>, <<>>)}
    \cup {ResultData("ok", TRUE, OutputNames(tcs, sql),
                     [i \in 1..n |-> [k \in 1..Len(OutputNames(tcs, sql)) |-> 0]], <<>>) :
            n \in 0..MaxRows}

----------------------------------------------------------------------------
(* Route handlers (app/routes.py) *)

DefaultPage == 1
DefaultPageSize == 10

Request(endpoint, params) == [endpoint |-> endpoint, params |-> params]

NoRequest == Request("none", NoParams)

Response(status, data, total, query, columns, errors) ==
    [status |-> status, data |-> data, total_count |-> total, query |-> query,
     columns |-> columns, errors |-> errors]

NoResponse == Response(0, <<>>, 0, NoSql, <<>>, <<>>)

\* a record of the adapter's log: the call and what came back
Call(event, which, sql, params_sent) ==
    [event |-> event, which |-> which, sql |-> sql, parameters |-> params_sent]

ColumnMetadata(tcs, columns, column_to_table_map) ==
    [i \in 1..Len(columns) |->
        [field |-> columns[i],
         type |-> With(_get_column_data_type(tcs, columns[i], column_to_table_map),
                       LAMBDA t : IF t = "" THEN "UNKNOWN" ELSE t)]]

\* a handler with the generic except clause only
HandleExceptionGenericOnly(exc) ==
    Response(500, <<>>, 0, NoSql, <<>>,
             <<Error("", "Internal server error: " \o exc.text, Bare(""), 0)>>)

\* the two except clauses of a handler: HTTPException 400 or 500
HandleException(exc) ==
    IF exc.kind = "ValidationError"
    THEN Response(400, <<>>, 0, NoSql, <<>>, exc.errors)
    ELSE Response(500, <<>>, 0, NoSql, <<>>,
                  <<Error("", "Internal server error: " \o exc.text, Bare(""), 0)>>)

\* count_result[0]["count"] if count_result else 0
TotalCount(rows) ==
    IF rows = <<>> THEN [exc |-> NoException, value |-> 0]
    ELSE IF ~Contains(rows[1].names, "count")
    THEN [exc |-> Exception("KeyError", <<>>, "'count'"), value |-> 0]
    ELSE [exc |-> NoException,
          value |-> rows[1].values[CHOOSE k \in 1..Len(rows[1].names) :
                                       rows[1].names[k] = "count"]]

\* QueryResponse(...): page and page_size are declared int, None is refused
GetDataResponse(tcs, order, params, main_query, rows, total) ==
    IF params.page = NoneVal \/ params.page_size = NoneVal
    THEN HandleException(Exception("ValidationError(pydantic)", <<>>,
                                   "none is not an allowed value"))
    ELSE Response(200, rows, total, main_query,
                  IF params.groupBy # <<>> /\ params.measures = <<>>
                  THEN ColumnMetadata(tcs, params.groupBy,
                           _get_explicitly_requested_tables(tcs, params, order).map)
                  ELSE <<>>,
                  <<>>)

\* get-data after build_query: the except clause, or on to the first query
AfterBuildSendsMainFirst(r) ==
    IF r.kind = "ValidationError"
    THEN [pc |-> "done",
          response |-> HandleException(Exception("ValidationError", r.errors,
                                                 "Validation failed"))]
    ELSE [pc |-> "send_main", response |-> NoResponse]

\* a handler that answers a groupBy-only request from the configuration alone
AfterBuildAnswersProbe(r) ==
    IF r.kind = "ValidationError"
    THEN [pc |-> "done",
          response |-> HandleException(Exception("ValidationError", r.errors,
                                                 "Validation failed"))]
    ELSE IF is_distinct_only(request.params)
    THEN [pc |-> "done",
          response |-> Response(200, <<>>, Len(request.params.groupBy), NoSql,
                           ColumnMetadata(table_configs, request.params.groupBy,
                               _get_explicitly_requested_tables(table_configs,
                                   request.params, hash_order).map),
                           <<>>)]
    ELSE [pc |-> IF r.count_query # NoSql THEN "send_count" ELSE "send_main",
          response |-> NoResponse]

AfterBuildExecutesAnyway(r) ==
    [pc |-> IF r.count_query # NoSql \/ r.kind = "ValidationError"
            THEN "send_count" ELSE "send_main",
     response |-> NoResponse]

AfterBuild(r) ==
    IF r.kind = "ValidationError"
    THEN [pc |-> "done",
          response |-> HandleException(Exception("ValidationError", r.errors,
                                                 "Validation failed"))]
    ELSE [pc |-> IF r.count_query # NoSql THEN "send_count" ELSE "send_main",
          response |-> NoResponse]

\* get-data after the count query came back: an exception of the adapter or
\* of the read of total_count ends the request, otherwise on to the main query
AfterCountSwallowsFailure(r) ==
    IF r.exc # NoException \/ TotalCount(r.rows).exc # NoException
    THEN [pc |-> "send_main", response |-> NoResponse, total_count |-> 0]
    ELSE [pc |-> "send_main", response |-> NoResponse,
          total_count |-> TotalCount(r.rows).value]

AfterCount(r) ==
    IF r.exc # NoException
    THEN [pc |-> "done", response |-> HandleException(r.exc), total_count |-> 0]
    ELSE IF TotalCount(r.rows).exc # NoException
    THEN [pc |-> "done", response |-> HandleException(TotalCount(r.rows).exc),
          total_count |-> 0]
    ELSE [pc |-> "send_main", response |-> NoResponse,
          total_count |-> TotalCount(r.rows).value]

\* column_to_table_map.get(column): the keys are bare column names, so the
\* text of a table-qualified reference is never one of them
MapGet(column_to_table_map, column) ==
    IF ~HasDot(column) /\ column.col \in DOMAIN column_to_table_map
    THEN column_to_table_map[column.col]
    ELSE NoConfig

\* table_config.restricted_attributes, as the handler reads it
restricted_attributes(table_config) == table_config.restricted_attributes

\* the columns of a get-attributes request that the handler finds restricted
RestrictedColumns(columns, column_to_table_map) ==
    SelectSeq(columns, LAMBDA column :
        /\ MapGet(column_to_table_map, column) # NoConfig
        /\ Contains(restricted_attributes(MapGet(column_to_table_map, column)), column.col))

AttributeParams(columns, filterBy) ==
    GetDataParams(<<>>, columns, filterBy, <<>>, DefaultPage, DefaultPageSize)

\* get_attributes up to its build_query call: what it raises or returns
AttributesBuild(tcs, order, params) ==
    With(_validate_columns(tcs, params.groupBy)
         \o (IF params.filterBy # <<>>
             THEN _validate_filter_data_types(tcs, params.filterBy,
                      _get_explicitly_requested_tables(tcs, params, order).map)
             ELSE <<>>),
         LAMBDA all_errors :
            IF all_errors # <<>> THEN Raised(all_errors)
            ELSE With(RestrictedColumns(params.groupBy,
                          _get_explicitly_requested_tables(tcs, params, order).map),
                      LAMBDA restricted_columns :
                         build_query(tcs, "simple", order, NewBuilder,
                             [params EXCEPT !.groupBy =
                                 SelectSeq(params.groupBy,
                                     LAMBDA col : ~Contains(restricted_columns, col))]).outcome))

AttributeColumns ==
    { <<Bare("uidtype")>>, <<Bare("uid")>>, <<Ref("newwpnl", "uid")>>, <<Bare("user_id")>>,
      <<Bare("uidtype"), Bare("uid")>>, <<Bare("nonexistent")>> }

AttributeFilters ==
    { <<>>, <<Equal("businessdate", IntVal(1))>>,
      <<Filter(Bare("uid"), "IN", TRUE, <<IntVal(1), StrVal(2)>>)>> }

AttributeRequests ==
    { AttributeParams(columns, filterBy) :
        columns \in AttributeColumns, filterBy \in AttributeFilters }

----------------------------------------------------------------------------
(* A builder instance that is reused for several build_query calls *)

\* with no table configured every request fails its column pass, whatever
\* the set order and the count strategy are
InitConfig ==
    /\ table_configs \in Configs
    /\ hash_order \in (IF table_configs = EmptyConfig THEN {RefOrder} ELSE HashOrders)
    /\ count_strategy \in (IF table_configs = EmptyConfig THEN {"simple"} ELSE Strategies)

InitBuilder ==
    /\ query_parts = NewBuilder.query_parts
    /\ parameters = NewBuilder.parameters
    /\ last_params = NoParams
    /\ last_result = NoResult
    /\ earlier = [paged |-> FALSE, raised |-> FALSE]

InitHandler ==
    /\ pc = "idle"
    /\ request = NoRequest
    /\ built = NoResult
    /\ adapter_calls = <<>>
    /\ count_result = <<>>
    /\ results = <<>>
    /\ total_count = 0
    /\ response = NoResponse

Init == InitConfig /\ InitBuilder /\ InitHandler

BuildQueryCall(params) ==
    \E r \in {build_query(table_configs, count_strategy, hash_order,
                           Builder(query_parts, parameters), params)} :
       /\ query_parts' = r.builder.query_parts
       /\ parameters' = r.builder.parameters
       /\ last_params' = params
       /\ last_result' = r.outcome
       /\ earlier' = [paged |-> earlier.paged \/ (last_result.kind = "ok"
                                                   /\ last_result.main_query.offset # ""),
                      raised |-> earlier.raised \/ last_result.kind = "ValidationError"]
       /\ UNCHANGED <<table_configs, hash_order, count_strategy>>
       /\ UNCHANGED handlerVars

NextBuilder == \E params \in Requests : BuildQueryCall(params)

SpecBuilder == Init /\ [][NextBuilder]_vars

----------------------------------------------------------------------------
(* The service: one request at a time through a route handler *)

Finish(resp) ==
    /\ pc' = "done"
    /\ response' = resp

ReceiveGetData(params) ==
    /\ pc = "idle"
    /\ pc' = "get_data"
    /\ request' = Request("get-data", params)
    /\ UNCHANGED <<built, adapter_calls, count_result, results, total_count, response>>
    /\ UNCHANGED <<table_configs, hash_order, count_strategy>>
    /\ UNCHANGED builderVars

ReceiveGetAttributes(params) ==
    /\ pc = "idle"
    /\ pc' = "get_attributes"
    /\ request' = Request("get-attributes", params)
    /\ UNCHANGED <<built, adapter_calls, count_result, results, total_count, response>>
    /\ UNCHANGED <<table_configs, hash_order, count_strategy>>
    /\ UNCHANGED builderVars

\* sql_builder = SQLBuilder(); build_query(params)
GetDataBuild ==
    /\ pc = "get_data"
    /\ \E r \in {build_query(table_configs, "simple", hash_order, NewBuilder,
                             request.params).outcome} :
          /\ built' = r
          /\ pc' = AfterBuild(r).pc
          /\ response' = AfterBuild(r).response
    /\ UNCHANGED <<request, adapter_calls, count_result, results, total_count>>
    /\ UNCHANGED <<table_configs, hash_order, count_strategy>>
    /\ UNCHANGED builderVars

\* execute_query(count_query, count_params) goes out
SendCount ==
    /\ pc = "send_count"
    /\ adapter_calls' = Append(adapter_calls,
                               Call("send", "count", built.count_query, built.count_parameters))
    /\ pc' = "await_count"
    /\ UNCHANGED <<request, built, count_result, results, total_count, response>>
    /\ UNCHANGED <<table_configs, hash_order, count_strategy>>
    /\ UNCHANGED builderVars

\* ... and comes back: rows or an exception, then total_count is read
ReplyCount(result_data) ==
    /\ pc = "await_count"
    /\ \E r \in {execute_query(result_data, FALSE)} :
          /\ adapter_calls' = Append(adapter_calls,
                 Call(IF r.exc # NoException THEN "raise" ELSE "return", "count",
                      built.count_query, built.count_parameters))
          /\ count_result' = r.rows
          /\ pc' = AfterCount(r).pc
          /\ response' = AfterCount(r).response
          /\ total_count' = AfterCount(r).total_count
    /\ UNCHANGED <<request, built, results>>
    /\ UNCHANGED <<table_configs, hash_order, count_strategy>>
    /\ UNCHANGED builderVars

\* execute_query(main_query, main_params) goes out
SendMain ==
    /\ pc = "send_main"
    /\ adapter_calls' = Append(adapter_calls,
                               Call("send", "main", built.main_query, built.main_parameters))
    /\ pc' = "await_main"
    /\ UNCHANGED <<request, built, count_result, results, total_count, response>>
    /\ UNCHANGED <<table_configs, hash_order, count_strategy>>
    /\ UNCHANGED builderVars

\* ... and comes back; the handler shapes its response
ReplyMain(result_data) ==
    /\ pc = "await_main"
    /\ \E r \in {execute_query(result_data, FALSE)} :
          IF r.exc # NoException
          THEN /\ adapter_calls' = Append(adapter_calls,
                       Call("raise", "main", built.main_query, built.main_parameters))
               /\ Finish(HandleException(r.exc))
               /\ UNCHANGED results
          ELSE /\ adapter_calls' = Append(adapter_calls,
                       Call("return", "main", built.main_query, built.main_parameters))
               /\ results' = r.rows
               /\ Finish(IF request.endpoint = "get-data"
                         THEN GetDataResponse(table_configs, hash_order, request.params,
                                              built.main_query, r.rows, total_count)
                         ELSE Response(200, r.rows, 0, built.main_query,
                                       ColumnMetadata(table_configs, request.params.groupBy,
                                           _get_explicitly_requested_tables(table_configs,
                                               request.params, hash_order).map),
                                       <<>>))
    /\ UNCHANGED <<request, built, count_result, total_count>>
    /\ UNCHANGED <<table_configs, hash_order, count_strategy>>
    /\ UNCHANGED builderVars

\* get_attributes: validation, restricted columns, build_query
GetAttributesBuild ==
    /\ pc = "get_attributes"
    /\ \E r \in {AttributesBuild(table_configs, hash_order, request.params)} :
          /\ built' = r
          /\ IF r.kind = "ValidationError"
             THEN Finish(HandleException(Exception("ValidationError", r.errors,
                                                   "Validation failed")))
             ELSE /\ pc' = "send_main"
                  /\ UNCHANGED response
    /\ UNCHANGED <<request, adapter_calls, count_result, results, total_count>>
    /\ UNCHANGED <<table_configs, hash_order, count_strategy>>
    /\ UNCHANGED builderVars

Next ==
    \/ \E params \in Requests : ReceiveGetData(params)
    \/ \E params \in AttributeRequests : ReceiveGetAttributes(params)
    \/ GetDataBuild
    \/ GetAttributesBuild
    \/ SendCount
    \/ \E result_data \in CountReplies : ReplyCount(result_data)
    \/ SendMain
    \/ \E result_data \in MainReplies(table_configs, built.main_query) : ReplyMain(result_data)

Spec == Init /\ [][Next]_vars

----------------------------------------------------------------------------
(* Total count from the results (SQLBuilder.get_count_from_results) *)

\* an int, or None when the function falls off its end
IntResult(n) == [none |-> FALSE, value |-> n]

NoneResult == [none |-> TRUE, value |-> 0]

\* the row the estimate strategy's marker query gives
SentinelRow == Row(<<"estimated_count">>, <<0 - 1>>)

\* count_result[0].get('estimated_count') == -1
IsSentinel(row) ==
    \E k \in 1..Len(row.names) :
        /\ row.names[k] = "estimated_count"
        /\ row.values[k] = 0 - 1
        /\ \A j \in 1..(k - 1) : row.names[j] # "estimated_count"

\* an estimate that always assumes one more page
get_count_from_results_always_more(strategy, count_rows, main_results, params) ==
    IF count_rows = <<>> THEN IntResult(0)
    ELSE IF strategy = "separate" THEN IntResult(Len(count_rows))
    ELSE IF strategy = "estimate"
    THEN IF IsSentinel(count_rows[1])
         THEN IF Truthy(params.page) /\ Truthy(params.page_size)
              THEN IntResult(params.page * params.page_size + params.page_size)
              ELSE IntResult(Len(main_results))
         ELSE NoneResult
    ELSE IntResult(count_rows[1].values[1])

get_count_from_results(strategy, count_rows, main_results, params) ==
    IF count_rows = <<>> THEN IntResult(0)
    ELSE IF strategy = "separate" THEN IntResult(Len(count_rows))
    ELSE IF strategy = "estimate"
    THEN IF IsSentinel(count_rows[1])
         THEN IF Truthy(params.page) /\ Truthy(params.page_size)
              THEN IF Len(main_results) = params.page_size
                   THEN IntResult(params.page * params.page_size + params.page_size)
                   ELSE IntResult((params.page - 1) * params.page_size + Len(main_results))
              ELSE IntResult(Len(main_results))
         ELSE NoneResult
    ELSE IntResult(count_rows[1].values[1])

\* n rows of a main query
SomeRows(n) == [i \in 1..n |-> Row(<<"uidtype">>, <<0>>)]

\* what a count query can have returned
CountRowSets ==
    {<<>>, <<SentinelRow>>} \cup {<<Row(<<"count">>, <<n>>)>> : n \in 0..MaxCount}
    \cup {SomeRows(n) : n \in 1..MaxRows}

PageRequests ==
    {GetDataParams(<<>>, <<Bare("uidtype")>>, <<>>, <<>>, pg, ps) :
        pg \in Pages, ps \in PageSizes}

\* get_count_from_results(count_result, main_results, params) on a builder
GetCountFromResults(count_rows, n, params) ==
    /\ pc = "idle"
    /\ pc' = "counted"
    /\ request' = Request("get_count_from_results", params)
    /\ count_result' = count_rows
    /\ results' = SomeRows(n)
    /\ total_count' = get_count_from_results(count_strategy, count_rows, SomeRows(n), params)
    /\ UNCHANGED <<built, adapter_calls, response>>
    /\ UNCHANGED <<table_configs, hash_order, count_strategy>>
    /\ UNCHANGED builderVars

NextCount ==
    \E count_rows \in CountRowSets, n \in 0..MaxRows, params \in PageRequests :
        GetCountFromResults(count_rows, n, params)

SpecCount == Init /\ [][NextCount]_vars

----------------------------------------------------------------------------
(* Construction of a FilterModel (pydantic field validation) *)

MaxValues == 3

\* what a caller passes for one field: nothing, None, a scalar, a list, a tuple
Missing == [kind |-> "missing", items |-> <<>>]
PyNone == [kind |-> "none", items |-> <<>>]
PyScalar(v) == [kind |-> "scalar", items |-> <<v>>]
PyList(items) == [kind |-> "list", items |-> items]
PyTuple(items) == [kind |-> "tuple", items |-> items]

valid_operators == {"EQUAL", "IN", "BETWEEN", "INLIST"}

\* @validator('operator'): the normalised operator, or "" when it raises
valid_operator(v) == IF Upper(v) \notin valid_operators THEN "" ELSE Upper(v)

\* a values validator that takes any list for BETWEEN
validate_values_raises_any_between(v, validated_operator) ==
    LET operator == Upper(validated_operator)
        is_list == v.kind = "list"
    IN CASE operator = "BETWEEN" -> ~is_list
         [] operator \in {"IN", "INLIST"} -> ~is_list \/ v.items = <<>>
         [] operator = "EQUAL" -> v.kind = "none" \/ is_list
         [] OTHER -> FALSE

\* @validator('values'): TRUE when it raises; validated_operator is
\* values.get('operator', ''), "" when the operator did not validate
validate_values_raises(v, validated_operator) ==
    LET operator == Upper(validated_operator)
        is_list == v.kind = "list"
    IN CASE operator = "BETWEEN" -> ~is_list \/ Len(v.items) # 2
         [] operator \in {"IN", "INLIST"} -> ~is_list \/ v.items = <<>>
         [] operator = "EQUAL" -> v.kind = "none" \/ is_list
         [] OTHER -> FALSE

Constructed(model) == [kind |-> "constructed", model |-> model, errors |-> {}]
Rejected(errors) ==
    [kind |-> "rejected", model |-> Filter("", "", FALSE, <<>>), errors |-> errors]

\* FilterModel(field=..., operator=..., values=...): the fields are validated
\* in declaration order, a field validator runs only on a field that is
\* present, and every error is collected before the construction is rejected
FilterModel(field, operator, values) ==
    LET field_errors == IF field.kind = "missing" THEN {"field"} ELSE {}
        validated_operator ==
            IF operator.kind = "missing" THEN "" ELSE valid_operator(operator.items[1])
        operator_errors == IF validated_operator = "" THEN {"operator"} ELSE {}
        values_errors ==
            IF values.kind = "missing" THEN {"values"}
            ELSE IF validate_values_raises(values, validated_operator) THEN {"values"}
            ELSE {}
        errors == field_errors \cup operator_errors \cup values_errors
    IN IF errors # {} THEN Rejected(errors)
       ELSE Constructed(Filter(field.items[1], validated_operator, values.kind = "list",
                               IF values.kind = "none" THEN <<NoValue>> ELSE values.items))

OperatorTexts ==
    {"EQUAL", "equal", "IN", "in", "INLIST", "inlist", "BETWEEN", "between", "Between",
     "like", "invalid_op"}

RECURSIVE Ints(_)
Ints(n) == IF n = 0 THEN <<>> ELSE Append(Ints(n - 1), IntVal(n))

ValueInputs ==
    {Missing, PyNone, PyScalar(IntVal(42)), PyScalar(StrVal(1)), PyTuple(Ints(2))}
    \cup {PyList(Ints(n)) : n \in 0..MaxValues}
    \cup {PyList(<<NoValue, IntVal(1)>>)}

FieldInputs == {Missing, PyScalar(Bare("test_field")), PyScalar(Ref("users", "name"))}

OperatorInputs == {Missing} \cup {PyScalar(op) : op \in OperatorTexts}

InitFilter ==
    /\ table_configs = SampleConfig
    /\ hash_order = RefOrder
    /\ count_strategy = "simple"
    /\ InitBuilder
    /\ InitHandler

\* one construction; request holds what was passed, response what came of it
ConstructFilterModel(field, operator, values) ==
    /\ pc = "idle"
    /\ pc' = "constructed"
    /\ request' = Request("FilterModel",
                          [field |-> field, operator |-> operator, values |-> values])
    /\ response' = FilterModel(field, operator, values)
    /\ UNCHANGED <<built, adapter_calls, count_result, results, total_count>>
    /\ UNCHANGED <<table_configs, hash_order, count_strategy>>
    /\ UNCHANGED builderVars

NextFilter ==
    \E field \in FieldInputs, operator \in OperatorInputs, values \in ValueInputs :
        ConstructFilterModel(field, operator, values)

SpecFilter == InitFilter /\ [][NextFilter]_vars

----------------------------------------------------------------------------
(* Parameter substitution (_format_query_with_params) *)

MaxText == 3
MaxParams == 2

\* text is a sequence of characters; a parameter is a str, an int, a list
\* of those, or None
Param(kind, chars, n, elems) == [kind |-> kind, chars |-> chars, n |-> n, elems |-> elems]
StrParam(chars) == Param("str", chars, 0, <<>>)
IntParam(n) == Param("int", <<>>, n, <<>>)
ListParam(elems) == Param("list", <<>>, 0, elems)
NoneParam == Param("none", <<>>, 0, <<>>)

\* param.replace(chr(39), chr(39) + chr(39)) between two quotes
QuoteStr(chars) ==
    <<"'">> \o Flatten([i \in 1..Len(chars) |->
                           IF chars[i] = "'" THEN <<"'", "'">> ELSE <<chars[i]>>])
            \o <<"'">>

\* str(param)
PyStrOf(param) == IF param.kind = "int" THEN <<Str(param.n)>> ELSE <<"None">>

RECURSIVE JoinWithComma(_)
JoinWithComma(parts) ==
    IF parts = <<>> THEN <<>>
    ELSE IF Len(parts) = 1 THEN parts[1]
    ELSE parts[1] \o <<",">> \o JoinWithComma(Tail(parts))

escaped_param(param) ==
    CASE param.kind = "str" -> QuoteStr(param.chars)
      [] param.kind = "int" -> PyStrOf(param)
      [] param.kind = "list" ->
            JoinWithComma([i \in 1..Len(param.elems) |->
                              IF param.elems[i].kind = "str"
                              THEN QuoteStr(param.elems[i].chars)
                              ELSE PyStrOf(param.elems[i])])
      [] OTHER -> PyStrOf(param)

\* text.replace('?', new, 1)
ReplaceFirst(text, new) ==
    LET at == CHOOSE i \in 1..Len(text) :
                  text[i] = "?" /\ \A j \in 1..(i - 1) : text[j] # "?"
    IN SubSeq(text, 1, at - 1) \o new \o SubSeq(text, at + 1, Len(text))

\* the while loop, param_index counting from 0
RECURSIVE FormatLoop(_, _, _)
FormatLoop(formatted_query, params, param_index) ==
    IF Contains(formatted_query, "?") /\ param_index < Len(params)
    THEN FormatLoop(ReplaceFirst(formatted_query, escaped_param(params[param_index + 1])),
                    params, param_index + 1)
    ELSE formatted_query

_format_query_with_params(query, params) == FormatLoop(query, params, 0)

RECURSIVE SeqsUpTo(_, _)
SeqsUpTo(S, n) ==
    IF n = 0 THEN {<<>>}
    ELSE SeqsUpTo(S, n - 1)
         \cup {Append(q, c) : q \in {r \in SeqsUpTo(S, n - 1) : Len(r) = n - 1}, c \in S}

QueryTexts == SeqsUpTo({"?", "a"}, MaxText)

ParamValues ==
    {StrParam(<<"x">>), StrParam(<<"x", "?">>), StrParam(<<"'">>), IntParam(5), NoneParam,
     ListParam(<<StrParam(<<"y">>), IntParam(1)>>)}

ParamLists == SeqsUpTo(ParamValues, MaxParams)

\* one call; request holds the arguments, response the text returned
FormatQueryWithParams(query, params) ==
    /\ pc = "idle"
    /\ pc' = "formatted"
    /\ request' = Request("_format_query_with_params", [query |-> query, params |-> params])
    /\ response' = _format_query_with_params(query, params)
    /\ UNCHANGED <<built, adapter_calls, count_result, results, total_count>>
    /\ UNCHANGED <<table_configs, hash_order, count_strategy>>
    /\ UNCHANGED builderVars

NextFormat ==
    \E query \in QueryTexts, params \in ParamLists : FormatQueryWithParams(query, params)

SpecFormat == InitFilter /\ [][NextFormat]_vars

----------------------------------------------------------------------------
(* Loading the configuration (SQLBuilder._load_table_configurations) *)

MaxEntries == 3

\* one entry of SCHEMAS: a mapping with or without schema_name, or a value
\* that is not a mapping, on which table_data.get raises
Entry(is_mapping, schema_name, table) ==
    [is_mapping |-> is_mapping, schema_name |-> schema_name, table |-> table]

TableEntry(table) == Entry(TRUE, table.name, table)
NamelessEntry(table) == Entry(TRUE, "", table)
MalformedEntry == Entry(FALSE, "", NoConfig)

\* the configuration file: absent, failing in open or in yaml.safe_load,
\* empty (safe_load gives None), or a document with or without SCHEMAS
ConfigFile(state, has_schemas, entries) ==
    [state |-> state, has_schemas |-> has_schemas, entries |-> entries]

\* self.table_configs[name] = config
PutTable(tables, config) ==
    IF \E i \in 1..Len(tables) : tables[i].name = config.name
    THEN [i \in 1..Len(tables) |-> IF tables[i].name = config.name THEN config ELSE tables[i]]
    ELSE Append(tables, config)

\* the loop of _parse_table_configs; raised tells whether an entry raised
RECURSIVE ParseEntries(_, _)
ParseEntries(tables, entries) ==
    IF entries = <<>> THEN [table_configs |-> tables, raised |-> FALSE]
    ELSE LET table_data == Head(entries)
         IN IF ~table_data.is_mapping THEN [table_configs |-> tables, raised |-> TRUE]
            ELSE IF table_data.schema_name # ""
            THEN ParseEntries(
                     PutTable(tables,
                         TableConfig(table_data.schema_name, table_data.table.priority,
                                     table_data.table.columns, table_data.table.relations,
                                     table_data.table.mandatory_fields,
                                     table_data.table.aggregations, <<>>)),
                     Tail(entries))
            ELSE ParseEntries(tables, Tail(entries))

_parse_table_configs(tables, config_data) ==
    IF config_data.state = "empty" THEN [table_configs |-> tables, raised |-> TRUE]
    ELSE IF config_data.has_schemas THEN ParseEntries(tables, config_data.entries)
    ELSE [table_configs |-> tables, raised |-> FALSE]

\* table_configs after __init__, which starts from {} and catches every exception
_load_table_configurations(file) ==
    IF file.state = "missing" THEN <<>>
    ELSE IF file.state \in {"unreadable", "invalid_yaml"} THEN <<>>
    ELSE _parse_table_configs(<<>>, file).table_configs

Entries ==
    {TableEntry(SampleConfig[1]), TableEntry(SampleConfig[2]),
     NamelessEntry(SampleConfig[3]), MalformedEntry}

ConfigFiles ==
    {ConfigFile(st, FALSE, <<>>) : st \in {"missing", "unreadable", "invalid_yaml", "empty"}}
    \cup {ConfigFile("document", FALSE, <<>>)}
    \cup {ConfigFile("document", TRUE, entries) : entries \in SeqsUpTo(Entries, MaxEntries)}

\* before SQLBuilder(...) there is no table
InitLoad ==
    /\ table_configs = <<>>
    /\ hash_order = RefOrder
    /\ count_strategy \in Strategies
    /\ InitBuilder
    /\ InitHandler

\* SQLBuilder(config_path, count_strategy); request holds the file read
Construct(file) ==
    /\ pc = "idle"
    /\ pc' = "constructed"
    /\ request' = Request("SQLBuilder", file)
    /\ table_configs' = _load_table_configurations(file)
    /\ query_parts' = FreshQueryParts
    /\ parameters' = <<>>
    /\ UNCHANGED <<last_params, last_result, earlier>>
    /\ UNCHANGED <<hash_order, count_strategy>>
    /\ UNCHANGED <<built, adapter_calls, count_result, results, total_count, response>>

NextLoad == \E file \in ConfigFiles : Construct(file)

SpecLoad == InitLoad /\ [][NextLoad]_vars

----------------------------------------------------------------------------
(* The direct-protocol adapter (trino_database.execute_query) *)

\* the call in flight: conn is the local of get_db_connection, exception the
\* one travelling to the caller ("" when there is none)
Running(conn, exception, rows) ==
    [kind |-> "running", conn |-> conn, exception |-> exception, rows |-> rows]

Ended(call, kind) == [call EXCEPT !.kind = kind]

\* a context manager that closes only when the body did not raise
finally_close_unless_raised(call, log) ==
    IF call.conn /\ call.exception = "" THEN Append(log, "close") ELSE log

\* finally: if conn: conn.close()
finally_close(call, log) == IF call.conn THEN Append(log, "close") ELSE log

TrinoQueries == {<<"a">>, <<"a", "?">>, <<"?", "?">>}

TrinoParams == SeqsUpTo({IntParam(5), StrParam(<<"x">>)}, MaxParams)

\* execute_query(query, params, datasource) is entered
TrinoExecuteQuery(query, params) ==
    /\ pc = "idle"
    /\ pc' = "connect"
    /\ request' = Request("trino.execute_query", [query |-> query, params |-> params])
    /\ response' = Running(FALSE, "", <<>>)
    /\ UNCHANGED <<built, adapter_calls, count_result, results, total_count>>
    /\ UNCHANGED <<table_configs, hash_order, count_strategy>>
    /\ UNCHANGED builderVars

\* trino.dbapi.connect returns or raises; when it raises conn stays None, the
\* finally clause closes nothing and both handlers log and re-raise
TrinoConnect(ok) ==
    /\ pc = "connect"
    /\ IF ok
       THEN /\ pc' = "cursor"
            /\ response' = Running(TRUE, "", <<>>)
            /\ adapter_calls' = Append(adapter_calls, "connect")
       ELSE /\ pc' = "raised"
            /\ response' = Ended(Running(FALSE, "connect", <<>>), "raised")
            /\ adapter_calls' = finally_close(Running(FALSE, "connect", <<>>),
                                              Append(adapter_calls, "connect failed"))
    /\ UNCHANGED <<request, built, count_result, results, total_count>>
    /\ UNCHANGED <<table_configs, hash_order, count_strategy>>
    /\ UNCHANGED builderVars

\* conn.cursor()
TrinoCursor(ok) ==
    /\ pc = "cursor"
    /\ pc' = IF ok THEN "execute" ELSE "exit"
    /\ response' = IF ok THEN response ELSE [response EXCEPT !.exception = "cursor"]
    /\ UNCHANGED <<request, built, adapter_calls, count_result, results, total_count>>
    /\ UNCHANGED <<table_configs, hash_order, count_strategy>>
    /\ UNCHANGED builderVars

\* cursor.execute of the formatted query, or of the query when params is empty
TrinoExecute(ok) ==
    /\ pc = "execute"
    /\ pc' = IF ok THEN "fetch" ELSE "exit"
    /\ adapter_calls' =
          Append(adapter_calls,
                 IF request.params.params # <<>>
                 THEN _format_query_with_params(request.params.query, request.params.params)
                 ELSE request.params.query)
    /\ response' = IF ok THEN response ELSE [response EXCEPT !.exception = "execute"]
    /\ UNCHANGED <<request, built, count_result, results, total_count>>
    /\ UNCHANGED <<table_configs, hash_order, count_strategy>>
    /\ UNCHANGED builderVars

\* cursor.fetchall() and the rows made of cursor._query.columns
TrinoFetch(ok, n) ==
    /\ pc = "fetch"
    /\ pc' = "exit"
    /\ response' = IF ok THEN [response EXCEPT !.rows = SomeRows(n)]
                   ELSE [response EXCEPT !.exception = "fetchall"]
    /\ UNCHANGED <<request, built, adapter_calls, count_result, results, total_count>>
    /\ UNCHANGED <<table_configs, hash_order, count_strategy>>
    /\ UNCHANGED builderVars

\* the with block is left: the finally clause of get_db_connection runs, then
\* execute_query returns the rows or logs and re-raises
TrinoExit ==
    /\ pc = "exit"
    /\ pc' = IF response.exception = "" THEN "returned" ELSE "raised"
    /\ adapter_calls' = finally_close(response, adapter_calls)
    /\ response' = Ended(response, IF response.exception = "" THEN "returned" ELSE "raised")
    /\ UNCHANGED <<request, built, count_result, results, total_count>>
    /\ UNCHANGED <<table_configs, hash_order, count_strategy>>
    /\ UNCHANGED builderVars

NextTrino ==
    \/ \E query \in TrinoQueries, params \in TrinoParams : TrinoExecuteQuery(query, params)
    \/ \E ok \in BOOLEAN : TrinoConnect(ok)
    \/ \E ok \in BOOLEAN : TrinoCursor(ok)
    \/ \E ok \in BOOLEAN : TrinoExecute(ok)
    \/ \E ok \in BOOLEAN, n \in 0..MaxRows : TrinoFetch(ok, n)
    \/ TrinoExit

SpecTrino == InitFilter /\ [][NextTrino]_vars

----------------------------------------------------------------------------
(* Service lifecycle (main.lifespan) *)

\* in this specification `earlier` holds the position of lifespan and the log
\* of registry calls
Life(phase, log) == [phase |-> phase, log |-> log]

\* a startup that lets the registration failure escape
after_registration_raises(ok) == IF ok THEN "serving" ELSE "failed"

\* try: eureka_client.init(...) except Exception: logged; then yield
after_registration(ok) == "serving"

\* try: eureka_client.stop() except Exception: logged
after_deregistration(ok) == "stopped"

InitLife ==
    /\ table_configs = SampleConfig
    /\ hash_order = RefOrder
    /\ count_strategy = "simple"
    /\ query_parts = NewBuilder.query_parts
    /\ parameters = NewBuilder.parameters
    /\ last_params = NoParams
    /\ last_result = NoResult
    /\ earlier = Life("starting", <<>>)
    /\ InitHandler

\* startup: registration with the registry returns or raises
Register(ok) ==
    /\ earlier.phase = "starting"
    /\ earlier' = Life(after_registration(ok),
                       Append(earlier.log, IF ok THEN "init" ELSE "init failed"))
    /\ UNCHANGED <<table_configs, hash_order, count_strategy>>
    /\ UNCHANGED <<query_parts, parameters, last_params, last_result>>
    /\ UNCHANGED handlerVars

\* the route handlers run while the service is serving
Serve ==
    /\ earlier.phase = "serving"
    /\ Next

\* the server asks lifespan to shut down: the code after yield starts
Shutdown ==
    /\ earlier.phase = "serving"
    /\ earlier' = Life("stopping", earlier.log)
    /\ UNCHANGED <<table_configs, hash_order, count_strategy>>
    /\ UNCHANGED <<query_parts, parameters, last_params, last_result>>
    /\ UNCHANGED handlerVars

\* shutdown: deregistration returns or raises
Deregister(ok) ==
    /\ earlier.phase = "stopping"
    /\ earlier' = Life(after_deregistration(ok),
                       Append(earlier.log, IF ok THEN "stop" ELSE "stop failed"))
    /\ UNCHANGED <<table_configs, hash_order, count_strategy>>
    /\ UNCHANGED <<query_parts, parameters, last_params, last_result>>
    /\ UNCHANGED handlerVars

NextLife ==
    \/ \E ok \in BOOLEAN : Register(ok)
    \/ Serve
    \/ Shutdown
    \/ \E ok \in BOOLEAN : Deregister(ok)

SpecLife == InitLife /\ [][NextLife]_vars

\* lifespan is a coroutine the server runs to its next await
FairSpecLife ==
    /\ SpecLife
    /\ WF_vars(\E ok \in BOOLEAN : Register(ok))
    /\ WF_vars(\E ok \in BOOLEAN : Deregister(ok))

----------------------------------------------------------------------------
(* One build_query call on a new builder, over more configurations *)

\* the sample configuration with a key that profile shares with users
SharedKeyConfig ==
    [i \in 1..Len(SampleConfig) |->
        IF SampleConfig[i].name = "profile"
        THEN [SampleConfig[i] EXCEPT !.mandatory_fields = <<"id">>]
        ELSE SampleConfig[i]]

\* the sample configuration with users given a higher priority value than profile
InvertedChainConfig ==
    [i \in 1..Len(SampleConfig) |->
        IF SampleConfig[i].name = "users"
        THEN [SampleConfig[i] EXCEPT !.priority = 4]
        ELSE SampleConfig[i]]

BuildConfigs == Configs \cup {SharedKeyConfig, InvertedChainConfig}

CountOf(t, c) == <<Measure(Ref(t, c), "COUNT")>>

\* shapes that reach tables through relation discovery only
BuildShapes ==
    { <<<<>>, <<Ref("users", "name")>>, <<>>, <<>>>>,
      <<CountOf("users", "name"), <<>>, <<>>, <<>>>>,
      <<CountOf("users", "name"), <<Ref("profile", "email")>>, <<>>, <<>>>>,
      <<SumOf("newpnl"), <<Ref("users", "name"), Ref("profile", "email")>>, <<>>, <<>>>>,
      <<SumOf("newpnl"), <<Bare("uidtype"), Bare("uidtype")>>, <<>>, <<>>>>,
      <<<<>>, <<Ref("users", "name"), Ref("profile", "email")>>,
        <<Equal("businessdate", IntVal(1))>>, <<>>>>,
      \* filters alone: nothing to select
      <<<<>>, <<>>, <<Equal("businessdate", IntVal(1))>>, <<>>>> }

BuildRequests ==
    Requests
    \cup { GetDataParams(sh[1], sh[2], sh[3], sh[4], 1, MaxPageSize) : sh \in BuildShapes }

InitBuild ==
    /\ table_configs \in BuildConfigs
    /\ hash_order \in HashOrders
    /\ count_strategy \in Strategies
    /\ InitBuilder
    /\ InitHandler

NextBuild ==
    \E params \in BuildRequests : last_result.kind = "none" /\ BuildQueryCall(params)

SpecBuild == InitBuild /\ [][NextBuild]_vars

----------------------------------------------------------------------------
(* One _get_explicitly_requested_tables call on a new builder *)

\* requests that name a column held by two tables
SharedColumnShapes ==
    { <<Bare("id")>>,
      <<Ref("profile", "id")>>,
      <<Bare("id"), Ref("profile", "id")>>,
      <<Bare("id"), Ref("users", "name")>> }

ResolveRequests ==
    BuildRequests
    \cup { GetDataParams(<<>>, group_by, <<>>, <<>>, 1, MaxPageSize) :
              group_by \in SharedColumnShapes }

\* builder._get_explicitly_requested_tables(params)
GetExplicitlyRequestedTables(params) ==
    /\ pc = "idle"
    /\ pc' = "resolved"
    /\ last_params' = params
    /\ earlier' = _get_explicitly_requested_tables(table_configs, params, hash_order)
    /\ UNCHANGED <<table_configs, hash_order, count_strategy>>
    /\ UNCHANGED <<query_parts, parameters, last_result>>
    /\ UNCHANGED <<request, built, adapter_calls, count_result, results, total_count, response>>

NextResolve == \E params \in ResolveRequests : GetExplicitlyRequestedTables(params)

SpecResolve == InitBuild /\ [][NextResolve]_vars

----------------------------------------------------------------------------
(* Properties of a reused builder (SpecBuilder) *)

\* C1: on a reused builder, whatever calls came before, build_query(p) gives
\* the outcome (main SQL, main parameters, count SQL, count parameters, or
\* the error list) that build_query(p) gives on a freshly constructed builder
\* with the same configuration.
C1_SameAsFreshBuilder ==
    last_result.kind # "none" =>
        last_result = build_query(table_configs, count_strategy, hash_order,
                                  NewBuilder, last_params).outcome

\* an unpaginated call that succeeded after a paginated call with an OFFSET
\* and a call that raised
C1_Witness ==
    /\ earlier.paged
    /\ earlier.raised
    /\ last_result.kind = "ok"
    /\ last_params.page = NoneVal
    /\ last_result.main_query.limit = ""

\* what the validation rules call a violation, pass by pass
UnresolvedColumns(tcs, params) ==
    {c \in Range(params.groupBy \o FieldsOf(params.measures)
                 \o FieldsOf(params.filterBy) \o FieldsOf(params.sortBy)) :
        ColumnError(tcs, c) # <<>>}

MistypedFilters(tcs, params, order) ==
    {i \in 1..Len(params.filterBy) :
        LET expected_type ==
                _get_column_data_type(tcs, params.filterBy[i].field,
                    _get_explicitly_requested_tables(tcs, params, order).map)
        IN /\ KnownType(expected_type)
           /\ \E k \in 1..Len(params.filterBy[i].values) :
                 /\ params.filterBy[i].values[k].ty # "none"
                 /\ ~IsInstance(params.filterBy[i].values[k], expected_type)}

UnresolvedMeasures(tcs, params) ==
    {i \in 1..Len(params.measures) : ColumnError(tcs, params.measures[i].field) # <<>>}

\* C2: a request with violations in several passes raises one validation
\* failure whose error list has at least one entry for every violation: each
\* unresolvable column, each filter whose value does not match its column's
\* type, each measure whose field does not resolve.
C2_EveryViolationHasAnEntry ==
    (/\ last_result.kind # "none"
     /\ Cardinality(UnresolvedColumns(table_configs, last_params))
        + Cardinality(MistypedFilters(table_configs, last_params, hash_order))
        + Cardinality(UnresolvedMeasures(table_configs, last_params)) >= 2)
    => /\ last_result.kind = "ValidationError"
       /\ \A c \in UnresolvedColumns(table_configs, last_params) :
             \E e \in Range(last_result.errors) : e.field = "columns" /\ e.column = c
       /\ \A i \in MistypedFilters(table_configs, last_params, hash_order) :
             \E e \in Range(last_result.errors) : e.field = "filters" /\ e.index = i - 1
       /\ \A i \in UnresolvedMeasures(table_configs, last_params) :
             \E e \in Range(last_result.errors) :
                 e.field = "measures" /\ e.column = last_params.measures[i].field

\* C10: with page >= 1 and page_size >= 1 the main query has LIMIT page_size,
\* and OFFSET (page - 1) * page_size exactly when page > 1; with page or
\* page_size absent it has neither LIMIT nor OFFSET.
C10_Pagination ==
    last_result.kind = "ok" =>
        IF last_params.page >= 1 /\ last_params.page_size >= 1
        THEN /\ last_result.main_query.limit = Str(last_params.page_size)
             /\ last_result.main_query.offset =
                    (IF last_params.page > 1
                     THEN Str((last_params.page - 1) * last_params.page_size) ELSE "")
        ELSE /\ last_result.main_query.limit = ""
             /\ last_result.main_query.offset = ""

\* a second page was built, on a builder that was used before
C10_Witness ==
    /\ last_result.kind = "ok"
    /\ last_params.page = 2
    /\ last_params.page_size >= 1
    /\ last_result.main_query.limit = Str(last_params.page_size)
    /\ last_result.main_query.offset = Str(last_params.page_size)
    /\ earlier.paged

----------------------------------------------------------------------------
(* Properties of the route handlers (Spec) *)

Sends(which) ==
    {i \in 1..Len(adapter_calls) :
        adapter_calls[i].event = "send" /\ adapter_calls[i].which = which}

Events(event, which) ==
    {i \in 1..Len(adapter_calls) :
        adapter_calls[i].event = event /\ adapter_calls[i].which = which}

ExceptionTexts ==
    {"API error", "Invalid response format from API", "'count'",
     "none is not an allowed value"}

C4_CountBeforeMain ==
    (request.endpoint = "get-data" /\ built.count_query # NoSql) =>
        \A i \in Sends("main") :
            \E j, k \in 1..(i - 1) :
                /\ j < k
                /\ j \in Sends("count")
                /\ k \in Events("return", "count")

C4_Witness ==
    /\ request.endpoint = "get-data"
    /\ built.count_query # NoSql
    /\ Sends("main") # {}

\* C5: in a get-data request each query is sent at most once; when the count
\* query raises, the main query is never sent and the response is 500; a
\* failed main query gives 500; no response has data rows and an error.
C5_NoRetryNoPartialSuccess ==
    request.endpoint = "get-data" =>
        /\ Cardinality(Sends("count")) <= 1
        /\ Cardinality(Sends("main")) <= 1
        /\ Events("raise", "count") # {} =>
              Sends("main") = {} /\ pc = "done" /\ response.status = 500
        /\ Events("raise", "main") # {} => pc = "done" /\ response.status = 500
        /\ response.data # <<>> => response.errors = <<>> /\ response.status = 200

C5_Witness ==
    /\ request.endpoint = "get-data"
    /\ Events("raise", "count") # {}
    /\ pc = "done"

\* C6: when a get-data or get-attributes request ends with the validation
\* failure (HTTP 400), nothing was handed to the execution adapter.
C6_NoCallsOnValidationFailure ==
    (built.kind = "ValidationError" \/ response.status = 400) => adapter_calls = <<>>

C6_Witness ==
    /\ request.endpoint = "get-attributes"
    /\ request.params.filterBy # <<>>
    /\ pc = "done"
    /\ response.status = 400

\* a reference to a column that its table configuration flags as restricted:
\* by name or by alias, bare or qualified with the table
IsRestrictedRef(tcs, column) ==
    \E i \in 1..Len(tcs) :
        /\ HasDot(column) => tcs[i].name = column.table
        /\ \E c \in 1..Len(tcs[i].columns) :
              /\ ColMatches(tcs[i].columns[c], column.col)
              /\ Contains(tcs[i].restricted_attributes, tcs[i].columns[c].name)

SelectsColumn(sql, column) ==
    \E i \in 1..Len(sql.select) :
        Contains(sql.select[i].cols, column.col) \/ Contains(sql.select[i].cols, "*")

\* C7: for a get-attributes request and a requested column that is restricted,
\* however it is referenced and whatever the filters, no query selecting the
\* column is executed and the response holds no values for it.
C7_RestrictedNeverSurfaced ==
    request.endpoint = "get-attributes" =>
        \A column \in Range(request.params.groupBy) :
            IsRestrictedRef(table_configs, column) =>
                /\ \A i \in 1..Len(adapter_calls) :
                      ~SelectsColumn(adapter_calls[i].sql, column)
                /\ \A i \in 1..Len(response.data) :
                      ~Contains(response.data[i].names, column.col)

\* groupBy non-empty; measures, filterBy and sortBy all empty
GroupByOnly(params) ==
    /\ params.groupBy # <<>>
    /\ params.measures = <<>>
    /\ params.filterBy = <<>>
    /\ params.sortBy = <<>>

C9_TotalCountFromCountResult ==
    (/\ request.endpoint = "get-data"
     /\ Len(adapter_calls) = 2
     /\ adapter_calls[2].event = "return")
    => /\ pc = "send_main"
       /\ IF count_result = <<>> THEN total_count = 0
          ELSE (Len(count_result) = 1 /\ Len(count_result[1].values) = 1)
                   => total_count = count_result[1].values[1]

----------------------------------------------------------------------------
(* Properties of get_count_from_results (SpecCount) *)

\* C11: under the estimate strategy, with the sentinel count row and page and
\* page_size known, the total is page*page_size + page_size when the main
\* query returned exactly page_size rows and (page-1)*page_size + the number
\* of main rows otherwise; with page or page_size unknown it is the number of
\* main rows.
C11_EstimateHeuristic ==
    (pc = "counted" /\ count_strategy = "estimate" /\ count_result = <<SentinelRow>>) =>
        /\ ~total_count.none
        /\ total_count.value =
              (IF request.params.page = NoneVal \/ request.params.page_size = NoneVal
               THEN Len(results)
               ELSE IF Len(results) = request.params.page_size
               THEN request.params.page * request.params.page_size + request.params.page_size
               ELSE (request.params.page - 1) * request.params.page_size + Len(results))

\* a short second page: the exact count
C11_Witness ==
    /\ pc = "counted"
    /\ count_strategy = "estimate"
    /\ count_result = <<SentinelRow>>
    /\ request.params.page = 2
    /\ request.params.page_size = 2
    /\ Len(results) = 1
    /\ total_count = IntResult(3)

----------------------------------------------------------------------------
(* Properties of one build_query call (SpecBuild) *)

CountStar == Item("COUNT", <<"*">>, "")

\* C12: the count strategy fixes the count query's SELECT: simple and any
\* unknown strategy COUNT(*); distinct COUNT(DISTINCT col) for a groupBy-only
\* request with one column, COUNT(DISTINCT (c1 || '|' || c2 ...)) with
\* several, COUNT(*) for every other request; separate SELECT DISTINCT over
\* the groupBy columns when there are any and COUNT(*) otherwise; estimate
\* exactly SELECT -1 AS estimated_count with no parameters.
C12_CountShapeByStrategy ==
    last_result.kind = "ok" =>
        LET select == last_result.count_query.select
            cols == ColNames(last_params.groupBy)
        IN CASE count_strategy = "distinct" ->
                   select = IF GroupByOnly(last_params)
                            THEN IF Len(cols) = 1
                                 THEN <<Item("COUNT DISTINCT", cols, "")>>
                                 ELSE <<Item("COUNT DISTINCT ||", cols, "")>>
                            ELSE <<CountStar>>
             [] count_strategy = "separate" ->
                   select = IF cols # <<>> THEN <<Item("DISTINCT", cols, "")>>
                            ELSE <<CountStar>>
             [] count_strategy = "estimate" ->
                   /\ last_result.count_query =
                         Sql(<<Item("", <<"-1">>, "estimated_count")>>, "",
                             <<>>, <<>>, <<>>, <<>>, "", "")
                   /\ last_result.count_parameters = <<>>
             [] OTHER -> select = <<CountStar>>

\* the distinct strategy on a groupBy-only request with two columns
C12_Witness ==
    /\ last_result.kind = "ok"
    /\ count_strategy = "distinct"
    /\ GroupByOnly(last_params)
    /\ Len(last_params.groupBy) = 2
    /\ last_result.count_query.select[1].fn = "COUNT DISTINCT ||"

OwnerOf(column) ==
    IF HasDot(column) THEN column.table ELSE BestTable(table_configs, column.col).name

RequestedTableNames ==
    {OwnerOf(column) : column \in Range(get_all_columns(last_params, hash_order))}

PriorityOf(table_name) == FoundConfig(table_configs, table_name).priority

\* C14: the FROM table of every returned query is the table of lowest
\* priority among the explicitly requested tables, never one that is in the
\* join set through relation discovery only; a request that names no table
\* raises the validation failure 'No tables found for requested columns'.
C14_FromIsLowestRequested ==
    /\ last_result.kind = "ok" =>
          /\ last_result.main_query.from \in RequestedTableNames
          /\ \A name \in RequestedTableNames :
                PriorityOf(last_result.main_query.from) <= PriorityOf(name)
          /\ last_result.count_query.from \in {last_result.main_query.from, ""}
    /\ (last_result.kind # "none" /\ get_all_columns(last_params, hash_order) = <<>>) =>
          /\ last_result.kind = "ValidationError"
          /\ Len(last_result.errors) = 1
          /\ last_result.errors[1].field = "columns"
          /\ last_result.errors[1].message = "No tables found for requested columns"

\* only users is requested; newwpnl, of lower priority, relates to it
C14_Witness ==
    /\ last_result.kind = "ok"
    /\ RequestedTableNames = {"users"}
    /\ last_result.main_query.from = "users"
    /\ \E i \in 1..Len(table_configs) :
          /\ table_configs[i].priority < PriorityOf("users")
          /\ \E r \in 1..Len(table_configs[i].relations) :
                table_configs[i].relations[r].name = "users"

\* the configuration of the table that anchors FROM in the last main query
FromTable == FoundConfig(table_configs, last_result.main_query.from)

LastJoinTables ==
    _find_tables_to_join(table_configs,
        _get_explicitly_requested_tables(table_configs, last_params, hash_order).set_a)

\* C15: the SELECT list of every aggregated main query is, in this order, the
\* mandatory fields of the table that anchors FROM, the mandatory fields of
\* each other join-set table, the requested groupBy columns, one
\* FUNCTION(column) AS function_column per measure, and the default
\* aggregations of the join-set tables.
C15_AggregatedSelectOrder ==
    (last_result.kind = "ok" /\ last_params.measures # <<>>) =>
        last_result.main_query.select =
            Columns(FromTable.mandatory_fields)
            \o Columns(MandatoryOfOthers(LastJoinTables, FromTable))
            \o Columns(ColNames(last_params.groupBy))
            \o [i \in 1..Len(last_params.measures) |-> MeasureItem(last_params.measures[i])]
            \o Flatten([i \in 1..Len(LastJoinTables) |->
                           AggregationItems(LastJoinTables[i].config)])

NoRepeats(seq) == \A i, j \in 1..Len(seq) : seq[i] = seq[j] => i = j

\* C16: the GROUP BY list of an aggregated main query is the mandatory fields
\* of the table that anchors FROM, then those of the other join-set tables,
\* then the requested groupBy columns, each column kept at its first
\* occurrence only: no column name occurs twice in it.
C16_GroupByDeduplicated ==
    (last_result.kind = "ok" /\ last_params.measures # <<>>) =>
        /\ NoRepeats(last_result.main_query.group_by)
        /\ last_result.main_query.group_by =
              AppendNew(<<>>, FromTable.mandatory_fields
                              \o MandatoryOfOthers(LastJoinTables, FromTable)
                              \o ColNames(last_params.groupBy))

LastJoins == last_result.main_query.joins

\* the tables of the query before its k-th JOIN clause
PresentBefore(k) ==
    {last_result.main_query.from} \cup {LastJoins[j].target : j \in 1..(k - 1)}

\* C17: JOIN clauses come in ascending priority of the joined tables, no table
\* is joined twice, the main table is never joined, and every ON predicate
\* pairs the joined table with a table already in FROM or in an earlier JOIN;
\* for the chain newwpnl -> users -> profile the clauses are
\* LEFT JOIN users ON newwpnl.uid = users.id, LEFT JOIN profile ON users.id = profile.id.
C17_JoinOrder ==
    last_result.kind = "ok" =>
        /\ \A j, k \in 1..Len(LastJoins) :
              j < k => PriorityOf(LastJoins[j].target) <= PriorityOf(LastJoins[k].target)
        /\ \A j, k \in 1..Len(LastJoins) : LastJoins[j].target = LastJoins[k].target => j = k
        /\ \A k \in 1..Len(LastJoins) : LastJoins[k].target # last_result.main_query.from
        /\ \A k \in 1..Len(LastJoins) :
              /\ LastJoins[k].conditions # <<>>
              /\ \A c \in 1..Len(LastJoins[k].conditions) :
                    /\ LastJoins[k].conditions[c].rt = LastJoins[k].target
                    /\ LastJoins[k].conditions[c].lt \in PresentBefore(k)
        /\ (/\ table_configs = SampleConfig
            /\ last_result.main_query.from = "newwpnl"
            /\ {"users", "profile"} \subseteq {LastJoinTables[i].key : i \in 1..Len(LastJoinTables)})
           => LastJoins = <<JoinClause("LEFT", "users",
                                       <<Equality("newwpnl", "uid", "users", "id")>>),
                            JoinClause("LEFT", "profile",
                                       <<Equality("users", "id", "profile", "id")>>)>>

\* the chain, requested with profile discovered before users
C17_Witness ==
    /\ last_result.kind = "ok"
    /\ table_configs = SampleConfig
    /\ last_result.main_query.from = "newwpnl"
    /\ Len(LastJoins) = 2
    /\ LastJoins[1].target = "users"
    /\ LastJoins[2].target = "profile"
    /\ \E i, j \in 1..Len(LastJoinTables) :
          i < j /\ LastJoinTables[i].key = "profile" /\ LastJoinTables[j].key = "users"

----------------------------------------------------------------------------
(* Properties of the request schemas (SpecFilter) *)

\* the shape rule read on the operator text and the value as they were passed
ShapeRuleOn(operator, values) ==
    /\ operator.kind # "missing"
    /\ Upper(operator.items[1]) \in {"EQUAL", "IN", "INLIST", "BETWEEN"}
    /\ CASE Upper(operator.items[1]) = "BETWEEN" ->
                values.kind = "list" /\ Len(values.items) = 2
         [] Upper(operator.items[1]) \in {"IN", "INLIST"} ->
                values.kind = "list" /\ Len(values.items) >= 1
         [] OTHER -> values.kind \notin {"missing", "none", "list"}

\* C18: every FilterModel that is constructed has an upper-case operator of
\* {EQUAL, IN, INLIST, BETWEEN} and values of the operator's shape (BETWEEN a
\* list of exactly two, IN/INLIST a non-empty list, EQUAL present and not a
\* list), and every input that breaks the rule is rejected.
C18_FilterShape ==
    pc = "constructed" =>
        /\ response.kind = "constructed" =>
              /\ response.model.operator \in {"EQUAL", "IN", "INLIST", "BETWEEN"}
              /\ response.model.operator = Upper(request.params.operator.items[1])
              /\ CASE response.model.operator = "BETWEEN" ->
                          response.model.is_list /\ Len(response.model.values) = 2
                   [] response.model.operator \in {"IN", "INLIST"} ->
                          response.model.is_list /\ Len(response.model.values) >= 1
                   [] OTHER -> ~response.model.is_list /\ response.model.values # <<NoValue>>
        /\ ~ShapeRuleOn(request.params.operator, request.params.values) =>
              response.kind = "rejected"

\* a lower-case BETWEEN with two values is constructed and normalised
C18_Witness ==
    /\ pc = "constructed"
    /\ response.kind = "constructed"
    /\ request.params.operator = PyScalar("between")
    /\ response.model.operator = "BETWEEN"
    /\ Len(response.model.values) = 2

----------------------------------------------------------------------------
(* Properties of parameter substitution (SpecFormat) *)

\* the original text with its i-th placeholder replaced by the i-th literal
RECURSIVE SubstituteInOrder(_, _)
SubstituteInOrder(query, params) ==
    IF query = <<>> THEN <<>>
    ELSE IF Head(query) = "?" /\ params # <<>>
    THEN escaped_param(Head(params)) \o SubstituteInOrder(Tail(query), Tail(params))
    ELSE <<Head(query)>> \o SubstituteInOrder(Tail(query), params)

\* C19: substitution replaces the i-th '?' of the original text by the escaped
\* literal of the i-th parameter for every i below min(placeholders,
\* parameters) and changes nothing else: surplus placeholders stay, surplus
\* parameters are ignored, also when a string parameter contains a '?'.
C19_SubstitutionInOrder ==
    pc = "formatted" =>
        response = SubstituteInOrder(request.params.query, request.params.params)

----------------------------------------------------------------------------
(* Properties of builder construction (SpecLoad) *)

\* reading or parsing the file raises somewhere
LoadingRaises(file) ==
    \/ file.state \in {"unreadable", "invalid_yaml", "empty"}
    \/ /\ file.state = "document"
       /\ file.has_schemas
       /\ \E i \in 1..Len(file.entries) : ~file.entries[i].is_mapping

\* C20: when reading or parsing the configuration raises at any point, also
\* after some entries were parsed, construction succeeds with zero tables; a
\* missing file gives zero tables; an entry without schema_name never
\* becomes a table.
C20_LoadFailureGivesNoTables ==
    pc = "constructed" =>
        /\ LoadingRaises(request.params) => table_configs = <<>>
        /\ request.params.state = "missing" => table_configs = <<>>
        /\ \A i \in 1..Len(table_configs) :
              \E k \in 1..Len(request.params.entries) :
                  /\ request.params.entries[k].is_mapping
                  /\ request.params.entries[k].schema_name = table_configs[i].name
                  /\ table_configs[i].name # ""

----------------------------------------------------------------------------
(* Properties of the direct-protocol adapter (SpecTrino) *)

Occurrences(log, event) == Cardinality({i \in 1..Len(log) : log[i] = event})

\* C21: a connection opened for an execute_query call is closed exactly once
\* before the call returns or raises, whether the query succeeds, the
\* execution raises or fetching rows raises; when opening the connection
\* fails no close is attempted and the failure is re-raised to the caller.
C21_ConnectionClosedOnce ==
    /\ Occurrences(adapter_calls, "close") <= Occurrences(adapter_calls, "connect")
    /\ Occurrences(adapter_calls, "connect") <= 1
    /\ pc \in {"returned", "raised"} =>
          Occurrences(adapter_calls, "close") = Occurrences(adapter_calls, "connect")
    /\ Occurrences(adapter_calls, "connect failed") = 1 =>
          /\ Occurrences(adapter_calls, "close") = 0
          /\ pc = "raised"
          /\ response.exception = "connect"

\* fetching rows raised on an opened connection, which was then closed
C21_Witness ==
    /\ pc = "raised"
    /\ response.exception = "fetchall"
    /\ Occurrences(adapter_calls, "connect") = 1
    /\ Occurrences(adapter_calls, "close") = 1

----------------------------------------------------------------------------
(* Properties of the service lifecycle (FairSpecLife) *)

StopAttempts ==
    Occurrences(earlier.log, "stop") + Occurrences(earlier.log, "stop failed")

----------------------------------------------------------------------------
(* Properties of the WHERE clause (SpecBuild) *)

\* the shape rule of the schema layer, read on a filter of the request
PassedSchema(f) ==
    CASE f.operator = "BETWEEN" -> f.is_list /\ Len(f.values) = 2
      [] f.operator \in {"IN", "INLIST"} -> f.is_list /\ Len(f.values) >= 1
      [] f.operator = "EQUAL" -> ~f.is_list /\ f.values # <<NoValue>>
      [] OTHER -> FALSE

\* the number of '?' of a WHERE clause
RECURSIVE SumPlaceholders(_)
SumPlaceholders(conditions) ==
    IF conditions = <<>> THEN 0
    ELSE Head(conditions).placeholders + SumPlaceholders(Tail(conditions))

Placeholders(where) == SumPlaceholders(Flatten(where))

\* C23: when every filter of the request passed the schema layer, the WHERE
\* clause is one parenthesised AND group holding exactly one condition per
\* filter in request order, and in the main query and in the count query
\* the number of '?' equals the length of the parameter list, the parameters
\* being those of the filters in placeholder order.
C23_OneConditionPerFilter ==
    (/\ last_result.kind = "ok"
     /\ \A i \in 1..Len(last_params.filterBy) : PassedSchema(last_params.filterBy[i])) =>
        LET filterBy == last_params.filterBy
            where == last_result.main_query.where
        IN /\ IF filterBy = <<>> THEN where = <<>>
              ELSE /\ Len(where) = 1
                   /\ Len(where[1]) = Len(filterBy)
                   /\ \A i \in 1..Len(filterBy) :
                         /\ where[1][i].column = filterBy[i].field.col
                         /\ where[1][i].op = (CASE filterBy[i].operator = "BETWEEN" -> "BETWEEN"
                                                [] filterBy[i].operator = "EQUAL" -> "="
                                                [] OTHER -> "IN")
                         /\ where[1][i].placeholders = Len(filterBy[i].values)
           /\ Placeholders(where) = Len(last_result.main_parameters)
           /\ Placeholders(last_result.count_query.where)
                 = Len(last_result.count_parameters)
           /\ last_result.main_parameters
                 = Flatten([i \in 1..Len(filterBy) |-> filterBy[i].values])

\* an open-ended BETWEEN followed by an EQUAL: two conditions, three parameters
C23_Witness ==
    /\ last_result.kind = "ok"
    /\ Len(last_params.filterBy) = 2
    /\ \A i \in 1..2 : PassedSchema(last_params.filterBy[i])
    /\ last_params.filterBy[1].operator = "BETWEEN"
    /\ NoValue \in Range(last_params.filterBy[1].values)
    /\ Len(last_result.main_query.where[1]) = 2
    /\ Len(last_result.main_parameters) = 3
    /\ Len(last_result.count_parameters) = 3

----------------------------------------------------------------------------
(* Properties of filter validation (SpecBuild) *)

FilterEntries(errors) == SelectSeq(errors, LAMBDA e : e.field = "filters")

LastColumnMap ==
    _get_explicitly_requested_tables(table_configs, last_params, hash_order).map

\* C24: an EQUAL filter on a column of a recognised type with a scalar value
\* of another type than the column's yields exactly one filter validation
\* error; a value of the expected type yields none.
C24_EqualTypeMismatchReported ==
    (/\ last_result.kind # "none"
     /\ Len(last_params.filterBy) = 1
     /\ last_params.filterBy[1].operator = "EQUAL"
     /\ ~last_params.filterBy[1].is_list
     /\ last_params.filterBy[1].values # <<NoValue>>
     /\ KnownType(_get_column_data_type(table_configs, last_params.filterBy[1].field,
                                        LastColumnMap))) =>
        Len(FilterEntries(last_result.errors)) =
            IF IsInstance(last_params.filterBy[1].values[1],
                          _get_column_data_type(table_configs, last_params.filterBy[1].field,
                                                LastColumnMap))
            THEN 0 ELSE 1

----------------------------------------------------------------------------
(* Properties of the SELECT list (SpecBuild) *)

\* C25: for a request with groupBy, no measures and at least one filter or
\* sort, the SELECT list of the main query is the union of the columns named
\* by groupBy, the filters and the sorts, unqualified; SELECT * is produced
\* only when no select item results.
C25_PlainSelectsAllReferenced ==
    /\ (/\ last_result.kind = "ok"
        /\ last_params.groupBy # <<>>
        /\ last_params.measures = <<>>
        /\ (last_params.filterBy # <<>> \/ last_params.sortBy # <<>>)) =>
           LET select == last_result.main_query.select
           IN /\ \A i \in 1..Len(select) : select[i].fn = "" /\ Len(select[i].cols) = 1
              /\ {select[i].cols[1] : i \in 1..Len(select)} =
                    {last_params.groupBy[i].col : i \in 1..Len(last_params.groupBy)}
                    \cup {last_params.filterBy[i].field.col : i \in 1..Len(last_params.filterBy)}
                    \cup {last_params.sortBy[i].field.col : i \in 1..Len(last_params.sortBy)}
    /\ (last_result.kind = "ok" /\ last_result.main_query.select = <<Column("*")>>) =>
           last_params.groupBy = <<>> /\ last_params.measures = <<>>

----------------------------------------------------------------------------
(* Properties of the join set (SpecBuild) *)

JoinSetNames == {LastJoinTables[i].key : i \in 1..Len(LastJoinTables)}

\* the join-set tables a chain of declared relations reaches from the tables S
RECURSIVE ChainFrom(_)
ChainFrom(S) ==
    LET more == {t \in JoinSetNames :
                    \E src \in S : HasRelationTo(FoundConfig(table_configs, src), t)}
    IN IF more \subseteq S THEN S ELSE ChainFrom(S \cup more)

TablesInQuery ==
    {last_result.main_query.from} \cup {LastJoins[k].target : k \in 1..Len(LastJoins)}

\* C26: every explicitly requested table that a chain of declared relations
\* through join-set tables connects to the main table is in FROM or in a JOIN
\* clause of the main query, whatever the priorities of the tables on the chain.
C26_ConnectedTablesJoined ==
    last_result.kind = "ok" =>
        \A name \in RequestedTableNames :
            name \in ChainFrom({last_result.main_query.from}) => name \in TablesInQuery

\* what the tables named in FROM and JOIN, and the request itself, may put in
\* the SELECT list of an aggregated query
ItemsOfQueryTables ==
    UNION {Range(Columns(FoundConfig(table_configs, t).mandatory_fields))
           \cup Range(AggregationItems(FoundConfig(table_configs, t))) : t \in TablesInQuery}
    \cup Range(Columns(ColNames(last_params.groupBy)))
    \cup {MeasureItem(last_params.measures[i]) : i \in 1..Len(last_params.measures)}

\* C27: in every aggregated main query each table whose mandatory fields or
\* default aggregations are in the SELECT or GROUP BY list is named in FROM or
\* in a JOIN clause: a join-set table without a join clause contributes no
\* column to SELECT or GROUP BY.
C27_OnlyJoinedTablesContribute ==
    (last_result.kind = "ok" /\ last_params.measures # <<>>) =>
        /\ Range(last_result.main_query.select) \subseteq ItemsOfQueryTables
        /\ \A g \in Range(last_result.main_query.group_by) : Column(g) \in ItemsOfQueryTables

\* the SELECT items of the last main query that are not aggregate expressions
PlainItems ==
    SelectSeq(last_result.main_query.select, LAMBDA item : item.fn \notin aggregate_names)

\* C28: in every aggregated main query every SELECT item that is not an
\* aggregate expression also appears in the GROUP BY list, and a GROUP BY
\* clause is present whenever such an item is selected.
C28_SelectedColumnsAreGrouped ==
    (last_result.kind = "ok" /\ last_params.measures # <<>>) =>
        /\ \A i \in 1..Len(PlainItems) :
              \A c \in Range(PlainItems[i].cols) : c \in Range(last_result.main_query.group_by)
        /\ PlainItems # <<>> => last_result.main_query.group_by # <<>>

\* a measure alone: the mandatory fields are selected and grouped
C28_Witness ==
    /\ last_result.kind = "ok"
    /\ last_params.measures # <<>>
    /\ last_params.groupBy = <<>>
    /\ Len(PlainItems) >= 2
    /\ SubSeq(last_result.main_query.group_by, 1, 2) = <<"uidtype", "businessdate">>

----------------------------------------------------------------------------
(* get_count_from_results never returns an absent value (SpecCount) *)

\* C29: get_count_from_results returns an integer for every count strategy
\* and every combination of count rows, main rows and pagination values: 0
\* for an empty count result and never None, also under the estimate
\* strategy when the first count row does not carry the -1 sentinel.
C29_CountIsAlwaysAnInteger ==
    pc = "counted" =>
        /\ ~total_count.none
        /\ count_result = <<>> => total_count = IntResult(0)

----------------------------------------------------------------------------
(* Column resolution and the order of the references (SpecResolve) *)

KeysOf(d) == {d[i].key : i \in 1..Len(d)}

\* the bare references of the resolved request that some table holds
ResolvableBare ==
    {column \in Range(get_all_columns(last_params, hash_order)) :
        ~HasDot(column) /\ BestTable(table_configs, column.col) # NoConfig}

\* C30: for a fixed request and configuration the column-to-table map and the
\* explicitly requested table set do not depend on the order in which the
\* de-duplicated references are processed: an unqualified column always maps
\* to the lowest-priority configured table containing it (ties to the first
\* configured table), also when the request holds a table-qualified
\* reference to a column of the same name in another table.
C30_ResolutionIndependentOfOrder ==
    pc = "resolved" =>
        \E other \in {_get_explicitly_requested_tables(table_configs, last_params,
                                                        Reverse(hash_order))} :
            /\ earlier.map = other.map
            /\ KeysOf(earlier.set_a) = KeysOf(other.set_a)
            /\ \A column \in ResolvableBare :
                  earlier.map[column.col] = BestTable(table_configs, column.col)

====
